---- MODULE Spec2Model ----
(***************************************************************************)
(* bytedojo: the LeetCode formatter pipeline (core/leetcode/formatters/    *)
(* python.py) and the batch fetch command (commands/leetcode/fetch.py).    *)
(*                                                                         *)
(* Text is a sequence of atoms.  An atom is a one-character string, or a   *)
(* keyword the code only ever handles as a whole ("Input:", "null",        *)
(* "ListNode", a literal piece of an f-string).  The pure functions of the *)
(* formatter are operators; each has a specification whose Init draws the  *)
(* argument from a bounded set and whose action applies the function.      *)
(***************************************************************************)
EXTENDS Integers, Sequences, FiniteSets, TLC

VARIABLES
    called,       \* the function applied to arg ("none" before the call)
    arg,          \* the argument of the call
    ret           \* the value the call returned (None before the call)

\* the fetch command (commands/leetcode/fetch.py) and what it acts on
VARIABLES
    problem_ids,    \* parse_arguments(arguments): the batch, sorted
    force,          \* the --force flag
    initialized,    \* repo.is_initialized()
    server,         \* what LeetCode answers for each problem number
    pc,             \* the statement of fetch that runs next
    position,       \* the index in problem_ids of the loop variable problem_id
    fetched,        \* the local variable problem
    content,        \* the local variable content
    db,             \* the rows of the table problems
    files,          \* the files below output_dir
    success_count,
    skip_count,
    raised          \* the exception that left fetch ("none" when there is none)

\* the executor (core/executor.py) and the test command (commands/test.py)
VARIABLES
    timeout,        \* Executor.timeout
    target,         \* the file run_test is called with and how it behaves
    xpc,            \* the statement of run_test that runs next
    child,          \* the child process of subprocess.run
    result,         \* the ExecutionResult run_test returns
    disk,           \* the file at each file_path of the table problems
    stop_on_fail,   \* the --stop-on-fail flag
    tpc,            \* the statement of test that runs next
    problems,       \* the local variable problems
    current,        \* the index in problems of the loop variable problem
    total,
    passed,
    failed,
    errors,
    skipped,
    exit            \* how test ended ("running" until it has)

functionVars == <<called, arg, ret>>

executorVars == <<timeout, target, xpc, child, result>>

commandVars ==
    <<disk, stop_on_fail, tpc, problems, current, total, passed, failed, errors,
      skipped, exit>>

testVars == <<executorVars, commandVars>>

fetchVars ==
    <<problem_ids, force, initialized, server, pc, position, fetched, content, db,
      files, success_count, skip_count, raised>>

vars == <<functionVars, fetchVars, testVars>>

NoValue == "<no value>"

\* None where the code expects a str
PyNone == <<NoValue>>

\* an exception in the place of the value of a call that raised it
Exception(name) == <<"<exception>", name>>

IsException(value) == Len(value) = 2 /\ value[1] = "<exception>"

\* the fetch command is not part of a specification of a single function
FetchNotRunning ==
    /\ problem_ids = <<>>
    /\ force = FALSE
    /\ initialized = FALSE
    /\ server = <<>>
    /\ pc = "not running"
    /\ position = 0
    /\ fetched = NoValue
    /\ content = NoValue
    /\ db = {}
    /\ files = {}
    /\ success_count = 0
    /\ skip_count = 0
    /\ raised = "none"

\* no test is run in a specification of a function or of fetch
TestNotRunning ==
    /\ timeout = 0
    /\ target = NoValue
    /\ xpc = "not running"
    /\ child = "not started"
    /\ result = NoValue
    /\ disk = <<>>
    /\ stop_on_fail = FALSE
    /\ tpc = "not running"
    /\ problems = <<>>
    /\ current = 0
    /\ total = 0
    /\ passed = 0
    /\ failed = 0
    /\ errors = 0
    /\ skipped = 0
    /\ exit = "running"

\* Optional[T]: None is the empty sequence, a value v is <<v>>
None == <<>>
Some(v) == <<v>>

\* ------------------------------------------------------------------ atoms
DQ == "\""
SQ == "'"
BS == "\\"
NL == "\n"
SP == " "

\* the one-character atoms the pattern \w matches
WordChars ==
    {"a", "b", "c", "d", "e", "f", "g", "h", "i", "j", "k", "l", "m",
     "n", "o", "p", "q", "r", "s", "t", "u", "v", "w", "x", "y", "z",
     "A", "B", "C", "D", "E", "F", "G", "H", "I", "J", "K", "L", "M",
     "N", "O", "P", "Q", "R", "S", "T", "U", "V", "W", "X", "Y", "Z",
     "0", "1", "2", "3", "4", "5", "6", "7", "8", "9", "_"}
Whitespace == {SP, NL}
Openers == {"[", "{", "("}
Closers == {"]", "}", ")"}

SeqsUpTo(S, n) == UNION {[1..k -> S] : k \in 0..n}

\* Op applied to the value of e, e being evaluated once
WithValue(e, Op(_)) == CHOOSE r \in {Op(v) : v \in {e}} : TRUE

\* the least and the greatest element of a non-empty set of numbers
Min(S) == CHOOSE i \in S : \A j \in S : i <= j
Max(S) == CHOOSE i \in S : \A j \in S : j <= i

\* str.lstrip() / str.rstrip() / str.strip(): whitespace removed at the ends
\* the positions of s that hold no whitespace
Solid(s) == {i \in 1..Len(s) : s[i] \notin Whitespace}

LStrip(text) ==
    WithValue(text, LAMBDA s :
        WithValue(Solid(s), LAMBDA solid :
            IF solid = {} THEN <<>> ELSE SubSeq(s, Min(solid), Len(s))))

RStrip(text) ==
    WithValue(text, LAMBDA s :
        WithValue(Solid(s), LAMBDA solid :
            IF solid = {} THEN <<>> ELSE SubSeq(s, 1, Max(solid))))

Strip(s) == RStrip(LStrip(s))

\* str.replace('null', 'None') on text whose null-token is one atom
ReplaceNull(text) ==
    WithValue(text, LAMBDA s :
        [i \in 1..Len(s) |-> IF s[i] = "null" THEN "None" ELSE s[i]])

\* str.replace("'", "\\'")
EscapeSingleQuotes(text) ==
    WithValue(text, LAMBDA s :
        LET \* the length of the result for the first n characters
            Upto(n) == n + Cardinality({i \in 1..n : s[i] = SQ})
            \* the character of s that the k-th character of the result comes from
            source(k) == Min({i \in 1..Len(s) : Upto(i) >= k})
        IN  [k \in 1..Upto(Len(s)) |->
                IF s[source(k)] = SQ /\ Upto(source(k)) > k THEN BS ELSE s[source(k)]])

\* ------------------------------------------------- _parse_input_parameter
\* re.search(r'(\w+)\s*=\s*(.+)', param_str): the leftmost word run that is
\* followed by optional whitespace and '=', with at least one character
\* other than a newline after the '=' and the whitespace behind it.
\* the first position from i on that holds no whitespace / no word character
\* / a newline; the position after the text when there is none
SkipSpaces(s, i) ==
    IF i > Len(s) THEN i
    ELSE Min({j \in i..Len(s) : s[j] \notin Whitespace} \cup {Len(s) + 1})

WordEnd(s, i) ==
    IF i > Len(s) THEN i
    ELSE Min({j \in i..Len(s) : s[j] \notin WordChars} \cup {Len(s) + 1})

LineEnd(s, i) ==
    IF i > Len(s) THEN i
    ELSE Min({j \in i..Len(s) : s[j] = NL} \cup {Len(s) + 1})

\* a match of the pattern that starts at position i: <<[name, value]>>, or
\* None when the pattern does not match there
\* (\s* is greedy but gives back blanks when (.+) would otherwise be empty)
ParamMatchAt(s, i) ==
    IF ~(i <= Len(s) /\ s[i] \in WordChars) THEN None
    ELSE LET e  == WordEnd(s, i)
             eq == SkipSpaces(s, e)
         IN  IF ~(eq <= Len(s) /\ s[eq] = "=") THEN None
             ELSE LET v  == SkipSpaces(s, eq + 1)
                      ve == LineEnd(s, v)
                  IN  IF ve > v
                      THEN Some([name |-> SubSeq(s, i, e - 1),
                                 value |-> SubSeq(s, v, ve - 1)])
                      ELSE IF v > eq + 1 /\ s[v - 1] = SP
                      THEN Some([name |-> SubSeq(s, i, e - 1),
                                 value |-> SubSeq(s, v - 1, LineEnd(s, v - 1) - 1)])
                      ELSE None

\* re.search: the leftmost match
ParamSearch(s, i) ==
    WithValue({j \in i..Len(s) : ParamMatchAt(s, j) # None}, LAMBDA matches :
        IF matches = {} THEN None ELSE ParamMatchAt(s, Min(matches)))

_parse_input_parameter(param_str) ==
    WithValue(ParamSearch(param_str, 1), LAMBDA m :
        IF m = None THEN None
        ELSE WithValue(ReplaceNull(Strip(m[1].value)), LAMBDA value :
                 LET name == Strip(m[1].name)
                 IN  IF value # <<>> /\ value[1] = DQ /\ value[Len(value)] = DQ
                     THEN Some(<<name, <<SQ>>
                                       \o EscapeSingleQuotes(SubSeq(value, 2, Len(value) - 1))
                                       \o <<SQ>> >>)
                     ELSE Some(<<name, value>>)))

\* ------------------------------------------------------ _parse_input_line
InputStart ==
    [params |-> <<>>, current_part |-> <<>>, in_quotes |-> FALSE,
     quote_char |-> NoValue, bracket_depth |-> 0]

\* one iteration of the loop over input_text + ','
InputStep(st, char) ==
    IF char \in {DQ, SQ} /\ (~st.in_quotes \/ char = st.quote_char)
    THEN [st EXCEPT !.in_quotes = ~st.in_quotes,
                    !.quote_char = IF ~st.in_quotes THEN char ELSE NoValue,
                    !.current_part = st.current_part \o <<char>>]
    ELSE IF char \in Openers
    THEN [st EXCEPT !.bracket_depth = st.bracket_depth + 1,
                    !.current_part = st.current_part \o <<char>>]
    ELSE IF char \in Closers
    THEN [st EXCEPT !.bracket_depth = st.bracket_depth - 1,
                    !.current_part = st.current_part \o <<char>>]
    ELSE IF char = "," /\ ~st.in_quotes /\ st.bracket_depth = 0
    THEN WithValue(Strip(st.current_part), LAMBDA part :
             WithValue(IF part # <<>> THEN _parse_input_parameter(part) ELSE None,
                       LAMBDA param :
                 [st EXCEPT !.params = IF param # None
                                       THEN Append(st.params, param[1])
                                       ELSE st.params,
                            !.current_part = <<>>]))
    ELSE [st EXCEPT !.current_part = st.current_part \o <<char>>]

\* the loop state after the characters lo..hi of s, st being the state before
\* them (the range is halved to keep the evaluation shallow)
RECURSIVE InputScan(_, _, _, _)
InputScan(s, st, lo, hi) ==
    IF lo > hi THEN st
    ELSE IF lo = hi THEN InputStep(st, s[lo])
    ELSE WithValue(InputScan(s, st, lo, (lo + hi) \div 2), LAMBDA left :
             InputScan(s, left, (lo + hi) \div 2 + 1, hi))

_parse_input_line(input_text) ==
    WithValue(input_text \o <<",">>, LAMBDA s :
        InputScan(s, InputStart, 1, Len(s)).params)

\* ---------------------------------------------- specification: input line
\* The input text of an example: "name = literal" segments joined by ", ",
\* the shape of the Input: line of a LeetCode description.
MaxInputParams == 3

InputValues ==
    { <<"1">>,
      <<"null">>,
      <<"[", "1", ",", "2", "]">>,
      <<"[", "[", "1", "]", ",", "[", "2", "]", "]">>,
      <<DQ, "x", ",", "y", DQ>>,
      <<SQ, "x", ",", "y", SQ>>,
      <<DQ, "(", DQ>>,
      <<DQ, "x", SQ, ",", "y", DQ>>,
      <<DQ, "x", BS, DQ, ",", "y", DQ>> }

ParamName(i) == <<"a", "b", "k", "s">>[((i - 1) % 4) + 1]

RECURSIVE JoinInput(_, _)
JoinInput(vals, i) ==
    IF i > Len(vals) THEN <<>>
    ELSE (IF i > 1 THEN <<",", SP>> ELSE <<>>)
         \o <<ParamName(i), SP, "=", SP>> \o vals[i] \o JoinInput(vals, i + 1)

InputTexts == {JoinInput(vals, 1) : vals \in SeqsUpTo(InputValues, MaxInputParams)}

InitInput ==
    /\ called = "none"
    /\ arg \in InputTexts
    /\ ret = None
    /\ FetchNotRunning
    /\ TestNotRunning

Call_parse_input_line ==
    /\ called = "none"
    /\ called' = "_parse_input_line"
    /\ ret' = _parse_input_line(arg)
    /\ UNCHANGED <<arg, fetchVars, testVars>>

NextInput == Call_parse_input_line

SpecInput == InitInput /\ [][NextInput]_vars

\* ----------------------------------------------------- _parse_output_line
\* the loop of _extract_list_value / _extract_dict_value from position i on,
\* with the bracket count so far: the prefix that ends where the count
\* returns to zero, or the whole text
RECURSIVE BracketScan(_, _, _, _, _)
BracketScan(text, open, close, i, bracket_count) ==
    IF i > Len(text) THEN text
    ELSE IF text[i] = open
    THEN BracketScan(text, open, close, i + 1, bracket_count + 1)
    ELSE IF text[i] = close
    THEN (IF bracket_count - 1 = 0
          THEN SubSeq(text, 1, i)
          ELSE BracketScan(text, open, close, i + 1, bracket_count - 1))
    ELSE BracketScan(text, open, close, i + 1, bracket_count)

_extract_list_value_first_closer(text) ==
    IF \E i \in 1..Len(text) : text[i] = "]"
    THEN SubSeq(text, 1, CHOOSE i \in 1..Len(text) :
                             text[i] = "]" /\ \A j \in 1..(i - 1) : text[j] # "]")
    ELSE text

_extract_list_value(text) == BracketScan(text, "[", "]", 1, 0)

_extract_dict_value(text) == BracketScan(text, "{", "}", 1, 0)

\* str.split(',')[0]
BeforeFirstComma(text) ==
    IF \E i \in 1..Len(text) : text[i] = ","
    THEN SubSeq(text, 1, (CHOOSE i \in 1..Len(text) :
                              text[i] = "," /\ \A j \in 1..(i - 1) : text[j] # ",") - 1)
    ELSE text

_parse_output_line(output_text) ==
    WithValue(Strip(output_text), LAMBDA text :
        IF text # <<>> /\ text[1] = "[" THEN _extract_list_value(text)
        ELSE IF text # <<>> /\ text[1] = "{" THEN _extract_dict_value(text)
        ELSE IF \E i \in 1..Len(text) : text[i] = ","
        THEN Strip(BeforeFirstComma(text))
        ELSE text)

\* --------------------------------------------- specification: output line
MaxOutputLen == 5
OutputAlphabet == {"[", "]", "{", "}", ",", "2", SP}

InitOutput ==
    /\ called = "none"
    /\ arg \in SeqsUpTo(OutputAlphabet, MaxOutputLen)
    /\ ret = None
    /\ FetchNotRunning
    /\ TestNotRunning

Call_parse_output_line ==
    /\ called = "none"
    /\ called' = "_parse_output_line"
    /\ ret' = _parse_output_line(arg)
    /\ UNCHANGED <<arg, fetchVars, testVars>>

NextOutput == Call_parse_output_line

SpecOutput == InitOutput /\ [][NextOutput]_vars

\* ------------------------------------------------------------- claim C3
\* brackets opened minus brackets closed in the first n characters
Balance(text, open, close, n) ==
    Cardinality({j \in 1..n : text[j] = open})
    - Cardinality({j \in 1..n : text[j] = close})

\* the positions at which the bracket that opens the text is closed
MatchPositions(text, open, close) ==
    {n \in 1..Len(text) :
        /\ Balance(text, open, close, n) = 0
        /\ \A m \in 1..(n - 1) : Balance(text, open, close, m) # 0}

MatchedPrefix(text, open, close) ==
    SubSeq(text, 1, CHOOSE n \in MatchPositions(text, open, close) : TRUE)

CommaPositions(text) == {i \in 1..Len(text) : text[i] = ","}

\* C3: after trimming, text that starts with '[' (resp. '{') gives the
\* prefix up to and including the bracket (brace) that matches the first
\* one; any other text with a comma gives the trimmed text before the first
\* comma; text with no comma is returned as trimmed.
C3_OutputLineValue ==
    called = "_parse_output_line" =>
        LET text == Strip(arg)
            bracketed == text # <<>> /\ text[1] \in {"[", "{"}
        IN  /\ (text # <<>> /\ text[1] = "[" /\ MatchPositions(text, "[", "]") # {})
                   => ret = MatchedPrefix(text, "[", "]")
            /\ (text # <<>> /\ text[1] = "{" /\ MatchPositions(text, "{", "}") # {})
                   => ret = MatchedPrefix(text, "{", "}")
            /\ (~bracketed /\ CommaPositions(text) # {})
                   => \E c \in CommaPositions(text) :
                          /\ \A d \in CommaPositions(text) : c <= d
                          /\ ret = Strip(SubSeq(text, 1, c - 1))
            /\ (~bracketed /\ CommaPositions(text) = {}) => ret = text

\* a nested list followed by trailing text is cut after its matching bracket
C3_Witness ==
    /\ called = "_parse_output_line"
    /\ arg = <<"[", "[", "]", "]", ",">>
    /\ ret = <<"[", "[", "]", "]">>

\* ------------------------------------------------- _extract_test_examples
\* Atoms of a description: an HTML tag, the entity &quot;, the labels and
\* markers the patterns look for, and plain characters.
Tag == "<tag>"
QuotEntity == "&quot;"
AmpEntity == "&amp;"
InputLabel == "Input:"
OutputLabel == "Output:"
ExplanationLabel == "Explanation:"
\* r'Example\s+\d+:' under re.IGNORECASE
ExampleMarkers == {"Example 1:", "Example 2:", "Example 3:", "example 4:"}
\* 'Constraints:' under re.IGNORECASE
ConstraintMarkers == {"Constraints:", "constraints:"}

\* html.unescape
Unescape(text) ==
    WithValue(text, LAMBDA s :
        [i \in 1..Len(s) |-> IF s[i] = QuotEntity THEN DQ
                             ELSE IF s[i] = AmpEntity THEN "&"
                             ELSE s[i]])

\* re.sub(r'<[^>]+>', '\n', description)
TagsToNewlines(text) ==
    WithValue(text, LAMBDA s : [i \in 1..Len(s) |-> IF s[i] = Tag THEN NL ELSE s[i]])

\* the least position >= i whose atom is in S, Len(s) + 1 if there is none
FirstIn(s, i, S) ==
    IF i > Len(s) THEN Len(s) + 1
    ELSE Min({j \in i..Len(s) : s[j] \in S} \cup {Len(s) + 1})

\* r'<Label>\s*([^\n]+(?:\n(?!<Stop>)[^\n]+)*)': the lines of the group from
\* position i on, where i starts a line of the group; the position after it
RECURSIVE GroupEnd(_, _, _)
GroupEnd(s, i, stop) ==
    LET e == LineEnd(s, i)
    IN  IF e + 1 <= Len(s) /\ s[e + 1] # stop /\ s[e + 1] # NL
        THEN GroupEnd(s, e + 1, stop)
        ELSE e

\* group(1).strip() of the search for the label, '' when there is no match
LabelledText(s, label, stop) ==
    WithValue(FirstIn(s, 1, {label}), LAMBDA p :
        WithValue(SkipSpaces(s, p + 1), LAMBDA v :
            IF p > Len(s) \/ v > Len(s) THEN <<>>
            ELSE Strip(SubSeq(s, v, GroupEnd(s, v, stop) - 1))))

\* r'Explanation:\s*([^\n]+.*?)$' under re.DOTALL, stripped
ExplanationText(s) ==
    WithValue(FirstIn(s, 1, {ExplanationLabel}), LAMBDA p :
        WithValue(SkipSpaces(s, p + 1), LAMBDA v :
            IF p > Len(s) \/ v > Len(s) THEN <<>>
            ELSE Strip(SubSeq(s, v, Len(s)))))

\* Optional[(input, output, explanation)]
_parse_example_text(example_text) ==
    WithValue(LabelledText(example_text, InputLabel, OutputLabel), LAMBDA input_text :
        LET output_text == LabelledText(example_text, OutputLabel, ExplanationLabel)
            explanation == ExplanationText(example_text)
        IN  IF input_text # <<>>
            THEN Some(<<input_text, output_text, explanation>>)
            ELSE None)

\* re.finditer(example_pattern, text): the matches from position i on
RECURSIVE ExamplesFrom(_, _)
\* the match whose marker is at position m: the position where its text
\* ends, and what _parse_example_text makes of the text
ExampleAt(text, m) ==
    WithValue(FirstIn(text, m + 1, ExampleMarkers \cup ConstraintMarkers), LAMBDA e :
        WithValue(Strip(SubSeq(text, m + 1, e - 1)), LAMBDA example_text :
            [end |-> e, example_data |-> _parse_example_text(example_text)]))

ExamplesFrom_StopAtEmpty(text, i) ==
    WithValue(FirstIn(text, i, ExampleMarkers), LAMBDA m :
        IF m > Len(text) THEN <<>>
        ELSE WithValue(ExampleAt(text, m), LAMBDA match :
                 IF match.example_data # None
                 THEN <<match.example_data[1]>> \o ExamplesFrom(text, match.end)
                 ELSE <<>>))

ExamplesFrom(text, i) ==
    WithValue(FirstIn(text, i, ExampleMarkers), LAMBDA m :
        IF m > Len(text) THEN <<>>
        ELSE WithValue(ExampleAt(text, m), LAMBDA match :
                 (IF match.example_data # None THEN <<match.example_data[1]>> ELSE <<>>)
                 \o ExamplesFrom(text, match.end)))

\* unescape raises for None and python.py:513-515 returns []
_extract_test_examples(description) ==
    IF description = PyNone THEN <<>>
    ELSE WithValue(TagsToNewlines(Unescape(description)), LAMBDA text :
             ExamplesFrom(text, 1))

\* ----------------------------------------- specification: example extractor
\* A description is a preamble followed by sections; a section is a marker
\* ("Example N:" or "Constraints:") and the text up to the next marker.
MaxSections == 3

ExampleBodies ==
    { <<NL, InputLabel, SP, "a", "=", "1", NL, OutputLabel, SP, "2", NL>>,
      <<Tag, NL, Tag, InputLabel, Tag, SP, "s", "=", QuotEntity, "x", QuotEntity, NL,
        Tag, OutputLabel, Tag, SP, "1", NL>>,
      <<NL, InputLabel, SP, "b", "=", "2", NL, OutputLabel, SP, "1", NL,
        ExplanationLabel, SP, "x", NL>>,
      <<SP, InputLabel, SP, "k", "=", "1", NL>>,
      <<NL, InputLabel, NL>>,
      <<NL, "x", NL>> }

Sections ==
    [marker : {"Example 1:", "Example 2:"}, body : ExampleBodies]
    \cup {[marker |-> "Constraints:", body |-> <<NL, InputLabel, SP, "x", "=", "9", NL>>]}

Preamble == <<Tag, "x", Tag, NL>>

RECURSIVE JoinSections(_)
JoinSections(sections) ==
    IF sections = <<>> THEN <<>>
    ELSE <<Head(sections).marker>> \o Head(sections).body
         \o JoinSections(Tail(sections))

DescriptionOf(sections) == Preamble \o JoinSections(sections)

InitExtract ==
    /\ called = "none"
    /\ arg \in SeqsUpTo(Sections, MaxSections)
    /\ ret = None
    /\ FetchNotRunning
    /\ TestNotRunning

Call_extract_test_examples ==
    /\ called = "none"
    /\ called' = "_extract_test_examples"
    /\ ret' = _extract_test_examples(DescriptionOf(arg))
    /\ UNCHANGED <<arg, fetchVars, testVars>>

NextExtract == Call_extract_test_examples

SpecExtract == InitExtract /\ [][NextExtract]_vars

\* ------------------------------------------------------------- claim C4
\* what one "Example N:" block yields on its own
BlockExample(section) ==
    _parse_example_text(Strip(TagsToNewlines(Unescape(section.body))))

IsExampleBlock(section) == section.marker \in ExampleMarkers

\* the blocks with non-empty input-text, in order of appearance
RECURSIVE KeptBlocks(_)
KeptBlocks(sections) ==
    IF sections = <<>> THEN <<>>
    ELSE (IF IsExampleBlock(Head(sections)) /\ BlockExample(Head(sections)) # None
          THEN <<BlockExample(Head(sections))[1]>>
          ELSE <<>>)
         \o KeptBlocks(Tail(sections))

\* C4: _extract_test_examples returns one ExampleCase for every
\* "Example N:" block whose input-text is non-empty, none for the other
\* blocks, in order of appearance whatever the labels N are.
C4_ExamplesInSourceOrder ==
    called = "_extract_test_examples" => ret = KeptBlocks(arg)

\* "Example 2:" before "Example 1:", an input-less block between them
C4_Witness ==
    /\ called = "_extract_test_examples"
    /\ Len(arg) = 3
    /\ arg[1].marker = "Example 2:" /\ BlockExample(arg[1]) # None
    /\ arg[2].marker = "Example 1:" /\ BlockExample(arg[2]) = None
    /\ arg[3].marker = "Example 1:" /\ BlockExample(arg[3]) # None
    /\ BlockExample(arg[1]) # BlockExample(arg[3])
    /\ ret = <<BlockExample(arg[1])[1], BlockExample(arg[3])[1]>>

\* ------------------------------------------------------------- claim C2
\* The top-level commas of a text, read as a list of Python/JSON literals:
\* a quoted string starts at a quote character and ends at the next
\* unescaped occurrence of the same character; brackets nest outside quoted
\* strings only.
RECURSIVE BackslashRun(_, _)
BackslashRun(s, j) ==
    IF j >= 1 /\ s[j] = BS THEN 1 + BackslashRun(s, j - 1) ELSE 0

RECURSIVE QuoteBefore(_, _)
QuoteBefore(s, i) ==
    IF i <= 1 THEN NoValue
    ELSE LET q == QuoteBefore(s, i - 1)
             c == s[i - 1]
         IN  IF q = NoValue
             THEN (IF c \in {DQ, SQ} THEN c ELSE NoValue)
             ELSE IF c = q /\ BackslashRun(s, i - 2) % 2 = 0 THEN NoValue
             ELSE q

DepthBefore(s, i) ==
    Cardinality({j \in 1..(i - 1) : s[j] \in Openers /\ QuoteBefore(s, j) = NoValue})
    - Cardinality({j \in 1..(i - 1) : s[j] \in Closers /\ QuoteBefore(s, j) = NoValue})

TopLevelCommas(s) ==
    {i \in 1..Len(s) :
        s[i] = "," /\ QuoteBefore(s, i) = NoValue /\ DepthBefore(s, i) = 0}

\* the (name, value) pairs of the segments that end at a top-level comma of
\* s, left to right, from position `from` on
RECURSIVE PairsFrom(_, _)
PairsFrom(s, from) ==
    LET later == {c \in TopLevelCommas(s) : c >= from}
    IN  IF later = {} THEN <<>>
        ELSE LET c     == CHOOSE x \in later : \A y \in later : x <= y
                 part  == Strip(SubSeq(s, from, c - 1))
                 param == IF part # <<>> THEN _parse_input_parameter(part) ELSE None
             IN  (IF param # None THEN <<param[1]>> ELSE <<>>) \o PairsFrom(s, c + 1)

TopLevelPairs(input_text) == PairsFrom(input_text \o <<",">>, 1)

\* C2: _parse_input_line splits at exactly the commas that are outside
\* quotes and at bracket depth zero, and returns the (name, value) pairs of
\* the segments in left-to-right order.
C2_SplitsAtTopLevelCommas ==
    called = "_parse_input_line" => ret = TopLevelPairs(arg)

\* ---------------------------------------------------- test code generation
\* str.split('\n') and '\n'.join(...)
SplitLines(text) ==
    WithValue(text, LAMBDA s :
        WithValue({i \in 1..Len(s) : s[i] = NL}, LAMBDA breaks :
            \* the position of the k-th newline: 0 for k = 0, and the position
            \* after the text for the one after the last
            LET BreakAt(k) ==
                    IF k = 0 THEN 0
                    ELSE IF k > Cardinality(breaks) THEN Len(s) + 1
                    ELSE CHOOSE i \in breaks : Cardinality({j \in breaks : j < i}) = k - 1
            IN  [k \in 1..(Cardinality(breaks) + 1) |->
                    SubSeq(s, BreakAt(k - 1) + 1, BreakAt(k) - 1)]))

\* the parts lo..hi joined (the range is halved to keep the evaluation shallow)
RECURSIVE JoinRange(_, _, _, _)
JoinRange(parts, sep, lo, hi) ==
    IF lo > hi THEN <<>>
    ELSE IF lo = hi THEN parts[lo]
    ELSE JoinRange(parts, sep, lo, (lo + hi) \div 2) \o sep
         \o JoinRange(parts, sep, (lo + hi) \div 2 + 1, hi)

JoinWith(parts, sep) ==
    WithValue(parts, LAMBDA list : JoinRange(list, sep, 1, Len(list)))

\* 'keyword' in text, for a keyword that is one atom
Contains(text, atom) == \E s \in {text} : \E i \in 1..Len(s) : s[i] = atom

\* the helper templates, a function body abridged to one atom
LISTNODE_HELPERS ==
    <<NL, "    def list_to_listnode(arr):", NL, "        ...", NL,
      "    ", NL, "    def listnode_to_list(node):", NL, "        ...", NL>>

TREENODE_HELPERS ==
    <<NL, "    def list_to_treenode(arr):", NL, "        ...", NL,
      "    ", NL, "    def treenode_to_list(root):", NL, "        ...", NL>>

\* _needs_conversion without its TreeNode branch
_needs_conversion_listnode_only(param_type) ==
    IF Contains(param_type, "ListNode") THEN Some("list_to_listnode")
    ELSE None

_needs_conversion(param_type) ==
    IF Contains(param_type, "ListNode") THEN Some("list_to_listnode")
    ELSE IF Contains(param_type, "TreeNode") THEN Some("list_to_treenode")
    ELSE None

_find_param_type(param_name, param_info) ==
    IF \E i \in 1..Len(param_info) : param_info[i][1] = param_name
    THEN Some(param_info[CHOOSE i \in 1..Len(param_info) :
                             /\ param_info[i][1] = param_name
                             /\ \A j \in 1..(i - 1) : param_info[j][1] # param_name][2])
    ELSE None

\* one iteration of the loop of _build_call_parameters
CallParameter(param, param_info) ==
    LET param_type == _find_param_type(param[1], param_info)
        converter  == IF param_type # None /\ param_type[1] # <<>>
                      THEN _needs_conversion(param_type[1])
                      ELSE None
    IN  IF converter # None
        THEN <<converter[1], "(">> \o param[2] \o <<")">>
        ELSE param[2]

_build_call_parameters(input_params, param_info) ==
    [i \in 1..Len(input_params) |-> CallParameter(input_params[i], param_info)]

_apply_return_conversion(call, return_type) ==
    IF Contains(return_type, "ListNode")
    THEN <<"listnode_to_list", "(">> \o call \o <<")">>
    ELSE IF Contains(return_type, "TreeNode")
    THEN <<"treenode_to_list", "(">> \o call \o <<")">>
    ELSE call

\* str.lower() on text whose boolean words are one atom each
Lower(text) ==
    WithValue(text, LAMBDA value :
        [i \in 1..Len(value) |->
            IF value[i] \in {"true", "True", "TRUE"} THEN "true"
            ELSE IF value[i] \in {"false", "False", "FALSE"} THEN "false"
            ELSE value[i]])

_normalize_value(value) ==
    WithValue(ReplaceNull(value), LAMBDA replaced :
        IF Lower(replaced) = <<"true">> THEN <<"True">>
        ELSE IF Lower(replaced) = <<"false">> THEN <<"False">>
        ELSE replaced)

AssertPrefix == "    assert "

_build_test_assertion(input_text, output_text, method_name, param_info, return_type) ==
    WithValue(_parse_input_line(input_text), LAMBDA input_params :
        IF input_params = <<>> THEN None
        ELSE LET expected_return == _normalize_value(_parse_output_line(output_text))
                 call_params == _build_call_parameters(input_params, param_info)
                 params_str  == JoinWith(call_params, <<",", SP>>)
                 call        == <<"solution.">> \o method_name \o <<"(">>
                                \o params_str \o <<")">>
             IN  Some(<<AssertPrefix>> \o expected_return \o <<" == ">>
                      \o _apply_return_conversion(call, return_type)))

\* the lines the loop over the examples appends to test_code
RECURSIVE AssertionLines(_, _, _, _)
AssertionLines(examples, method_name, param_info, return_type) ==
    IF examples = <<>> THEN <<>>
    ELSE WithValue(_build_test_assertion(Head(examples)[1], Head(examples)[2],
                                         method_name, param_info, return_type),
                   LAMBDA assertion :
             (IF assertion # None THEN <<assertion[1], <<>> >> ELSE <<>>)
             \o AssertionLines(Tail(examples), method_name, param_info, return_type))

_build_test_code(examples, method_name, helpers_needed, param_info, return_type) ==
    LET test_code ==
            (IF helpers_needed.listnode THEN SplitLines(LISTNODE_HELPERS) ELSE <<>>)
            \o (IF helpers_needed.treenode THEN SplitLines(TREENODE_HELPERS) ELSE <<>>)
            \o << <<>> >>
            \o AssertionLines(examples, method_name, param_info, return_type)
    IN  JoinWith(test_code, <<NL>>)

\* ------------------------------------------- specification: test code
MaxExamples == 3

\* (input-text, output-text, explanation) triples the extractor can yield
ExampleCases ==
    { << <<"a", SP, "=", SP, "1">>, <<"2">>, <<>> >>,
      << <<"h", SP, "=", SP, "[", "1", ",", "null", "]">>, <<"[", "1", ",", "null", "]">>, <<"x">> >>,
      << <<"[", "1", ",", "2", "]">>, <<"true">>, <<>> >>,
      << <<"s", SP, "=", SP, DQ, "(", DQ>>, <<"1">>, <<>> >>,
      << <<"a", SP, "=", SP, "1", ",", SP, "h", SP, "=", SP, "[", "2", "]">>, <<>>, <<>> >> }

ListNodeType == <<"Optional[", "ListNode", "]">>
TreeNodeType == <<"Optional[", "TreeNode", "]">>

SignatureInfos ==
    { [param_info |-> <<>>, return_type |-> <<"Any">>],
      [param_info |-> << <<<<"a">>, <<"int">>>>, <<<<"h">>, ListNodeType>> >>,
       return_type |-> ListNodeType],
      [param_info |-> << <<<<"h">>, TreeNodeType>>, <<<<"a">>, <<"int">>>> >>,
       return_type |-> <<"bool">>] }

InitTests ==
    /\ called = "none"
    /\ arg \in [examples : SeqsUpTo(ExampleCases, MaxExamples) \ {<<>>},
                method_name : {<<"f">>},
                helpers_needed : [listnode : BOOLEAN, treenode : BOOLEAN],
                signature : SignatureInfos]
    /\ ret = None
    /\ FetchNotRunning
    /\ TestNotRunning

Call_build_test_code ==
    /\ called = "none"
    /\ called' = "_build_test_code"
    /\ ret' = _build_test_code(arg.examples, arg.method_name, arg.helpers_needed,
                               arg.signature.param_info, arg.signature.return_type)
    /\ UNCHANGED <<arg, fetchVars, testVars>>

NextTests == Call_build_test_code

SpecTests == InitTests /\ [][NextTests]_vars

\* ------------------------------------------------------------- claim C1
\* the assertion statements of a test section, in order
AssertionsOf(test_code) ==
    SelectSeq(SplitLines(test_code), LAMBDA line : line # <<>> /\ line[1] = AssertPrefix)

ExampleAssertion(example) ==
    _build_test_assertion(example[1], example[2], arg.method_name,
                          arg.signature.param_info, arg.signature.return_type)

\* C1: for N >= 1 extracted examples the test section holds exactly N
\* assertion statements, the i-th one being the assertion of the i-th example.
C1_OneAssertionPerExample ==
    called = "_build_test_code" =>
        /\ Len(AssertionsOf(ret)) = Len(arg.examples)
        /\ \A i \in 1..Len(arg.examples) :
               ExampleAssertion(arg.examples[i]) = Some(AssertionsOf(ret)[i])

\* ------------------------------------- specification: converter planning
MaxPlanParams == 2

BothNodesType == <<"Dict[", "ListNode", ",", SP, "TreeNode", "]">>

PlanTypes == {<<"int">>, <<"Any">>, ListNodeType, TreeNodeType, BothNodesType}

PlanInputTexts ==
    { <<"a", SP, "=", SP, "1">>,
      <<"h", SP, "=", SP, "[", "1", ",", "null", "]">>,
      <<"a", SP, "=", SP, "1", ",", SP, "h", SP, "=", SP, "[", "2", "]">>,
      <<"t", SP, "=", SP, "[", "3", "]">> }

InitPlan ==
    /\ called = "none"
    /\ arg \in [input_text : PlanInputTexts,
                output_text : {<<"[", "1", ",", "null", "]">>},
                method_name : {<<"f">>},
                param_info : SeqsUpTo({<<"a">>, <<"h">>} \X PlanTypes, MaxPlanParams),
                return_type : PlanTypes]
    /\ ret = None
    /\ FetchNotRunning
    /\ TestNotRunning

\* the call expression _build_test_assertion builds before the return conversion
CallOf(method_name, call_params) ==
    <<"solution.">> \o method_name \o <<"(">>
    \o JoinWith(call_params, <<",", SP>>) \o <<")">>

Call_build_call_parameters ==
    /\ called = "none"
    /\ called' = "_build_call_parameters"
    /\ ret' = _build_call_parameters(_parse_input_line(arg.input_text), arg.param_info)
    /\ UNCHANGED <<arg, fetchVars, testVars>>

Call_apply_return_conversion ==
    /\ called = "none"
    /\ called' = "_apply_return_conversion"
    /\ ret' = _apply_return_conversion(
                  CallOf(arg.method_name,
                         _build_call_parameters(_parse_input_line(arg.input_text),
                                                arg.param_info)),
                  arg.return_type)
    /\ UNCHANGED <<arg, fetchVars, testVars>>

Call_build_test_assertion ==
    /\ called = "none"
    /\ called' = "_build_test_assertion"
    /\ ret' = _build_test_assertion(arg.input_text, arg.output_text, arg.method_name,
                                    arg.param_info, arg.return_type)
    /\ UNCHANGED <<arg, fetchVars, testVars>>

NextPlan ==
    \/ Call_build_call_parameters
    \/ Call_apply_return_conversion
    \/ Call_build_test_assertion

SpecPlan == InitPlan /\ [][NextPlan]_vars

\* ------------------------------------------------------------- claim C5
\* the input converters / return converters the keywords of a type select
InputConverters(type) ==
    (IF Contains(type, "ListNode") THEN {"list_to_listnode"} ELSE {})
    \cup (IF Contains(type, "TreeNode") THEN {"list_to_treenode"} ELSE {})

ReturnConverters(type) ==
    (IF Contains(type, "ListNode") THEN {"listnode_to_list"} ELSE {})
    \cup (IF Contains(type, "TreeNode") THEN {"treenode_to_list"} ELSE {})

\* the declared types of the signature parameters with this name
DeclaredTypes(name, param_info) ==
    {param_info[i][2] : i \in {k \in 1..Len(param_info) : param_info[k][1] = name}}

\* the type of the matching signature parameter: the first with that name
MatchingType(name, param_info) ==
    param_info[CHOOSE i \in 1..Len(param_info) :
                   /\ param_info[i][1] = name
                   /\ \A j \in 1..(i - 1) : param_info[j][1] # name][2]

\* text is literal inside exactly one converter of the set, or, when the set
\* is empty, literal itself
OneConverterOf(text, literal, converters) ==
    IF converters = {} THEN text = literal
    ELSE \E c \in converters : text = <<c, "(">> \o literal \o <<")">>

PlanInputParams == _parse_input_line(arg.input_text)

SlotConverters(name) ==
    IF DeclaredTypes(name, arg.param_info) = {} THEN {}
    ELSE InputConverters(MatchingType(name, arg.param_info))

SlotsPlanned(slots) ==
    /\ Len(slots) = Len(PlanInputParams)
    /\ \A j \in 1..Len(slots) :
           OneConverterOf(slots[j], PlanInputParams[j][2],
                          SlotConverters(PlanInputParams[j][1]))

\* C5: an input value is wrapped in a converter iff the type of the matching
\* signature parameter holds a structural keyword, the call is wrapped in a
\* return converter iff the return type holds one, the converter is one the
\* keyword selects, a slot has at most one converter and a slot without
\* keyword is the literal itself.
C5_ConverterIffKeyword ==
    /\ called = "_build_call_parameters" => SlotsPlanned(ret)
    /\ called = "_apply_return_conversion" =>
           \E slots \in {_build_call_parameters(PlanInputParams, arg.param_info)} :
               /\ SlotsPlanned(slots)
               /\ OneConverterOf(ret, CallOf(arg.method_name, slots),
                                 ReturnConverters(arg.return_type))
    /\ called = "_build_test_assertion" =>
           /\ ret # None
           /\ \E call \in {SubSeq(ret[1], 8, Len(ret[1]))} :
                  /\ SubSeq(ret[1], 1, 7) =
                         <<AssertPrefix, "[", "1", ",", "None", "]", " == ">>
                  /\ \E slots \in {_build_call_parameters(PlanInputParams, arg.param_info)} :
                         /\ SlotsPlanned(slots)
                         /\ OneConverterOf(call, CallOf(arg.method_name, slots),
                                           ReturnConverters(arg.return_type))

\* a TreeNode parameter after an int one, a ListNode return type
C5_Witness ==
    /\ called = "_build_test_assertion"
    /\ arg.input_text = <<"a", SP, "=", SP, "1", ",", SP, "h", SP, "=", SP, "[", "2", "]">>
    /\ arg.param_info = << <<<<"a">>, <<"int">>>>, <<<<"h">>, TreeNodeType>> >>
    /\ arg.return_type = ListNodeType
    /\ ret = Some(<<AssertPrefix, "[", "1", ",", "None", "]", " == ",
                    "listnode_to_list", "(", "solution.", "f", "(", "1", ",", SP,
                    "list_to_treenode", "(", "[", "2", "]", ")", ")", ")">>)

\* ------------------------------------------------------ signature analyzer
\* Code is text whose identifiers and keywords are one atom each.
\* The atoms the pattern \w+ runs over:
CodeWords ==
    WordChars \cup {"def", "class", "self", "pass", "Solution", "Helper", "ListNode",
                    "TreeNode", "int", "str", "bool", "List", "Optional", "Dict",
                    "val", "next", "None", "Any", "__init__", "solve"}

\* the identifiers whose text starts with '__'
DunderWords == {"__init__"}

\* str.startswith('__') and '__' in text
StartsWithDunder(text) ==
    /\ text # <<>>
    /\ \/ text[1] \in DunderWords
       \/ Len(text) >= 2 /\ text[1] = "_" /\ text[2] \in DunderWords \cup {"_"}

HasDunder(text) == \E k \in 1..Len(text) : StartsWithDunder(SubSeq(text, k, Len(text)))

\* str.startswith(prefix)
StartsWith(text, prefix) ==
    Len(text) >= Len(prefix) /\ SubSeq(text, 1, Len(prefix)) = prefix

CodeWordEnd(s, i) ==
    IF i > Len(s) THEN i
    ELSE Min({j \in i..Len(s) : s[j] \notin CodeWords} \cup {Len(s) + 1})

\* 'needle' in text, for a needle of several atoms
ContainsSeq(text, needle) ==
    \E s \in {text} :
        \E i \in 1..(Len(s) - Len(needle) + 1) :
            SubSeq(s, i, i + Len(needle) - 1) = needle

\* len(line) - len(line.lstrip())
IndentOf(line) == Len(line) - Len(LStrip(line))

\* a match of def\s+(\w+)\s*\( that starts at position i: <<[name, open]>>
\* with the position of the parenthesis, or None
DefMatchAt(s, i) ==
    IF ~(s[i] = "def" /\ i + 1 <= Len(s) /\ s[i + 1] \in Whitespace) THEN None
    ELSE LET n == SkipSpaces(s, i + 1)
             e == CodeWordEnd(s, n)
             o == SkipSpaces(s, e)
         IN  IF e > n /\ o <= Len(s) /\ s[o] = "("
             THEN Some([name |-> SubSeq(s, n, e - 1), open |-> o])
             ELSE None

\* re.search(r'def\s+(\w+)\s*\(', s): the leftmost match
DefSearch(s) ==
    WithValue({i \in 1..Len(s) : DefMatchAt(s, i) # None}, LAMBDA matches :
        IF matches = {} THEN None ELSE DefMatchAt(s, Min(matches)))

\* re.search(r'def\s+(?!__)(\w+)\s*\(', s)
IsPlainDef(s, i) == DefMatchAt(s, i) # None /\ ~StartsWithDunder(DefMatchAt(s, i)[1].name)

PlainDefSearch(s) ==
    WithValue({i \in 1..Len(s) : IsPlainDef(s, i)}, LAMBDA matches :
        IF matches = {} THEN None ELSE DefMatchAt(s, Min(matches)))

MethodNameStart == [method |-> None, in_solution_class |-> FALSE]

\* one iteration of the loop of _extract_method_name; method is <<name>> once
\* a line has returned
MethodNameStep(st, line) ==
    IF st.method # None THEN st
    ELSE IF ContainsSeq(line, <<"class", SP, "Solution">>)
    THEN [st EXCEPT !.in_solution_class = TRUE]
    ELSE LET in_class == IF st.in_solution_class /\ line # <<>>
                            /\ line[1] \notin Whitespace /\ Contains(line, "class")
                         THEN FALSE
                         ELSE st.in_solution_class
         IN  WithValue(IF in_class THEN DefSearch(line) ELSE None, LAMBDA match :
                 IF match # None /\ ~StartsWithDunder(match[1].name)
                 THEN [method |-> Some(match[1].name), in_solution_class |-> in_class]
                 ELSE [st EXCEPT !.in_solution_class = in_class])

RECURSIVE MethodNameScan(_, _, _, _)
MethodNameScan(lines, st, lo, hi) ==
    IF lo > hi THEN st
    ELSE IF lo = hi THEN MethodNameStep(st, lines[lo])
    ELSE WithValue(MethodNameScan(lines, st, lo, (lo + hi) \div 2), LAMBDA left :
             MethodNameScan(lines, left, (lo + hi) \div 2 + 1, hi))

_extract_method_name(code) ==
    WithValue(SplitLines(code), LAMBDA lines :
        WithValue(MethodNameScan(lines, MethodNameStart, 1, Len(lines)).method,
                  LAMBDA found :
            IF found # None THEN found[1]
            ELSE WithValue(PlainDefSearch(code), LAMBDA match :
                     IF match # None THEN match[1].name ELSE <<"solve">>)))

\* str.split('=')[0] and str.split(':', 1)
BeforeFirst(text, atom) ==
    WithValue(text, LAMBDA s : SubSeq(s, 1, FirstIn(s, 1, {atom}) - 1))

AfterFirst(text, atom) ==
    WithValue(text, LAMBDA s : SubSeq(s, FirstIn(s, 1, {atom}) + 1, Len(s)))

_parse_parameter(param_str) ==
    WithValue(Strip(BeforeFirst(param_str, "=")), LAMBDA param_clean :
        IF Contains(param_clean, ":")
        THEN <<Strip(BeforeFirst(param_clean, ":")), Strip(AfterFirst(param_clean, ":"))>>
        ELSE <<param_clean, <<"Any">>>>)

\* the group ([^)]+) of def\s+\w+\s*\(\s*self\s*(?:,\s*([^)]+))?\) for a match
\* of the def part that ends at the parenthesis at position open:
\* <<group>>, <<None>> when the pattern matches without the group, None when
\* the pattern does not match
SelfGroupAt(s, open) ==
    LET f == SkipSpaces(s, open + 1)
    IN  IF ~(f <= Len(s) /\ s[f] = "self") THEN None
        ELSE LET c == SkipSpaces(s, f + 1)
             IN  IF c <= Len(s) /\ s[c] = ")" THEN Some(None)
                 ELSE IF ~(c <= Len(s) /\ s[c] = ",") THEN None
                 ELSE IF ~(\E k \in (c + 1)..Len(s) : s[k] = ")") THEN None
                 ELSE LET close == CHOOSE k \in (c + 1)..Len(s) :
                                       s[k] = ")" /\ \A j \in (c + 1)..(k - 1) : s[j] # ")"
                          g     == SkipSpaces(s, c + 1)
                      IN  IF g < close THEN Some(Some(SubSeq(s, g, close - 1)))
                          ELSE IF close > c + 1 THEN Some(Some(<<s[close - 1]>>))
                          ELSE None

IsSignatureAt(s, i) ==
    DefMatchAt(s, i) # None /\ SelfGroupAt(s, DefMatchAt(s, i)[1].open) # None

\* re.search of the whole pattern: the group of the leftmost match
SignatureSearch(s) ==
    WithValue({i \in 1..Len(s) : IsSignatureAt(s, i)}, LAMBDA matches :
        IF matches = {} THEN None
        ELSE SelfGroupAt(s, DefMatchAt(s, Min(matches))[1].open))

SignatureStart == [params |-> <<>>, current_param |-> <<>>, bracket_depth |-> 0]

\* one iteration of the loop over params_str + ','
SignatureStep(st, char) ==
    IF char \in Openers
    THEN [st EXCEPT !.bracket_depth = st.bracket_depth + 1,
                    !.current_param = st.current_param \o <<char>>]
    ELSE IF char \in Closers
    THEN [st EXCEPT !.bracket_depth = st.bracket_depth - 1,
                    !.current_param = st.current_param \o <<char>>]
    ELSE IF char = "," /\ st.bracket_depth = 0
    THEN WithValue(Strip(st.current_param), LAMBDA param :
             [st EXCEPT !.params = IF param # <<>>
                                   THEN Append(st.params, _parse_parameter(param))
                                   ELSE st.params,
                        !.current_param = <<>>])
    ELSE [st EXCEPT !.current_param = st.current_param \o <<char>>]

RECURSIVE SignatureScan(_, _, _, _)
SignatureScan(s, st, lo, hi) ==
    IF lo > hi THEN st
    ELSE IF lo = hi THEN SignatureStep(st, s[lo])
    ELSE WithValue(SignatureScan(s, st, lo, (lo + hi) \div 2), LAMBDA left :
             SignatureScan(s, left, (lo + hi) \div 2 + 1, hi))

_parse_method_signature(line) ==
    WithValue(SignatureSearch(line), LAMBDA match :
        IF match = None \/ match[1] = None \/ match[1][1] = <<>> THEN <<>>
        ELSE WithValue(match[1][1] \o <<",">>, LAMBDA params_str :
                 SignatureScan(params_str, SignatureStart, 1, Len(params_str)).params))

ParameterInfoStart == [params |-> None, in_solution |-> FALSE]

\* one iteration of the loop of _extract_parameter_info; params is <<list>>
\* once a line has returned
ParameterInfoStep(st, line) ==
    IF st.params # None THEN st
    ELSE IF ContainsSeq(line, <<"class", SP, "Solution">>)
    THEN [st EXCEPT !.in_solution = TRUE]
    ELSE IF st.in_solution /\ StartsWith(Strip(line), <<"class", SP>>)
            /\ ~Contains(line, "Solution")
    THEN [st EXCEPT !.in_solution = FALSE]
    ELSE IF st.in_solution /\ ContainsSeq(line, <<"def", SP>>) /\ ~HasDunder(line)
    THEN [st EXCEPT !.params = Some(_parse_method_signature(line))]
    ELSE st

RECURSIVE ParameterInfoScan(_, _, _, _)
ParameterInfoScan(lines, st, lo, hi) ==
    IF lo > hi THEN st
    ELSE IF lo = hi THEN ParameterInfoStep(st, lines[lo])
    ELSE WithValue(ParameterInfoScan(lines, st, lo, (lo + hi) \div 2), LAMBDA left :
             ParameterInfoScan(lines, left, (lo + hi) \div 2 + 1, hi))

_extract_parameter_info(code) ==
    WithValue(SplitLines(code), LAMBDA lines :
        WithValue(ParameterInfoScan(lines, ParameterInfoStart, 1, Len(lines)).params,
                  LAMBDA found :
            IF found # None THEN found[1] ELSE <<>>))

\* ------------------------------------ specification: signature analyzer
\* A template is the class Solution with up to MaxMethods methods, with or
\* without a helper class before it and another class after it.
MaxMethods == 2

ParamLists ==
    { <<>>,
      << [name |-> <<"a">>, type |-> <<"List", "[", "int", "]">>],
         [name |-> <<"h">>, type |-> <<"Optional", "[", "ListNode", "]">>] >>,
      << [name |-> <<"m">>, type |-> <<"Dict", "[", "str", ",", SP, "int", "]">>],
         [name |-> <<"k">>, type |-> <<"int">>] >> }

Methods ==
    [name : {<<"__init__">>, <<"f">>, <<"g">>}, params : ParamLists,
     layout : {"one line", "several lines"}]

Templates ==
    [helper_before : BOOLEAN,
     methods : SeqsUpTo(Methods, MaxMethods) \ {<<>>},
     class_after : BOOLEAN]

Indent(n) == [i \in 1..n |-> SP]

ParamText(param) == param.name \o <<":", SP>> \o param.type

RECURSIVE ParamsInline(_)
ParamsInline(params) ==
    IF params = <<>> THEN <<>>
    ELSE <<",", SP>> \o ParamText(Head(params)) \o ParamsInline(Tail(params))

\* the lines of one method: the signature on one line or on several, and a body
MethodLines(method) ==
    (IF method.layout = "one line"
     THEN << Indent(4) \o <<"def", SP>> \o method.name \o <<"(", "self">>
             \o ParamsInline(method.params) \o <<")", SP, "->", SP, "int", ":">> >>
     ELSE << Indent(4) \o <<"def", SP>> \o method.name \o <<"(">>,
             Indent(8) \o <<"self", ",">> >>
          \o [i \in 1..Len(method.params) |->
                 Indent(8) \o ParamText(method.params[i]) \o <<",">>]
          \o << Indent(4) \o <<")", SP, "->", SP, "int", ":">> >>)
    \o << Indent(8) \o <<"pass">>, <<>> >>

RECURSIVE MethodsLines(_)
MethodsLines(methods) ==
    IF methods = <<>> THEN <<>>
    ELSE MethodLines(Head(methods)) \o MethodsLines(Tail(methods))

HelperClassLines ==
    << <<"class", SP, "ListNode", ":">>,
       Indent(4) \o <<"def", SP, "__init__", "(", "self", ",", SP, "val", "=", "0", ",",
                      SP, "next", "=", "None", ")", ":">>,
       Indent(8) \o <<"pass">>,
       Indent(4) \o <<"def", SP, "solve", "(", "self", ",", SP, "val", ")", ":">>,
       Indent(8) \o <<"pass">>,
       <<>> >>

ClassAfterLines ==
    << <<"class", SP, "Helper", ":">>,
       Indent(4) \o <<"def", SP, "solve", "(", "self", ",", SP, "val", ")", ":">>,
       Indent(8) \o <<"pass">> >>

TemplateCode(template) ==
    JoinWith((IF template.helper_before THEN HelperClassLines ELSE <<>>)
             \o << <<"class", SP, "Solution", ":">> >>
             \o MethodsLines(template.methods)
             \o (IF template.class_after THEN ClassAfterLines ELSE <<>>),
             <<NL>>)

InitSig ==
    /\ called = "none"
    /\ arg \in Templates
    /\ ret = None
    /\ FetchNotRunning
    /\ TestNotRunning

Call_extract_method_name ==
    /\ called = "none"
    /\ called' = "_extract_method_name"
    /\ ret' = _extract_method_name(TemplateCode(arg))
    /\ UNCHANGED <<arg, fetchVars, testVars>>

Call_extract_parameter_info ==
    /\ called = "none"
    /\ called' = "_extract_parameter_info"
    /\ ret' = _extract_parameter_info(TemplateCode(arg))
    /\ UNCHANGED <<arg, fetchVars, testVars>>

NextSig == Call_extract_method_name \/ Call_extract_parameter_info

SpecSig == InitSig /\ [][NextSig]_vars

\* ------------------------------------------------------------- claim C6
\* the methods of class Solution whose name does not start with '__'
PlainMethods(template) ==
    SelectSeq(template.methods, LAMBDA method : ~StartsWithDunder(method.name))

\* C6: for a template whose class Solution has a method without dunder name,
\* the analyzer returns the name of the first such method and a parameter
\* list as long as the list of top-level parameter segments after self.
C6_FirstPlainMethod ==
    PlainMethods(arg) # <<>> =>
        /\ called = "_extract_method_name" => ret = PlainMethods(arg)[1].name
        /\ called = "_extract_parameter_info" =>
               Len(ret) = Len(PlainMethods(arg)[1].params)

\* -------------------------------------------- _uncomment_class_definitions
\* str.lstrip('#')
LStripHash(text) ==
    WithValue(text, LAMBDA s :
        WithValue({i \in 1..Len(s) : s[i] # "#"}, LAMBDA other :
            IF other = {} THEN <<>> ELSE SubSeq(s, Min(other), Len(s))))

\* str.isspace()
IsSpace(s) == s # <<>> /\ \A i \in 1..Len(s) : s[i] \in Whitespace

\* line[n:]
From(line, n) == SubSeq(line, n + 1, Len(line))

\* every comment line opens a block
IsClassComment_any_comment(stripped) == StartsWith(stripped, <<"#">>)

\* stripped.startswith('# class ') and ':' in stripped
IsClassComment(stripped) ==
    StartsWith(stripped, <<"#", SP, "class", SP>>) /\ Contains(stripped, ":")

UncommentStart ==
    [result |-> <<>>, in_comment_block |-> FALSE, comment_block |-> <<>>,
     base_indent |-> 0]

\* one iteration of the loop over the lines
UncommentStep(st, line) ==
    WithValue(Strip(line), LAMBDA stripped :
        IF IsClassComment(stripped)
        THEN [st EXCEPT !.in_comment_block = TRUE,
                        !.base_indent = IndentOf(line),
                        !.comment_block =
                            <<LStrip(LStripHash(From(line, IndentOf(line))))>>]
        ELSE IF st.in_comment_block /\ StartsWith(stripped, <<"#">>)
        THEN IF IndentOf(line) >= st.base_indent
             THEN WithValue(LStripHash(From(line, st.base_indent)),
                            LAMBDA uncommented_line :
                      IF uncommented_line # <<>> /\ ~IsSpace(uncommented_line)
                      THEN [st EXCEPT !.comment_block =
                                Append(st.comment_block,
                                       IF uncommented_line[1] = SP
                                       THEN Tail(uncommented_line)
                                       ELSE uncommented_line)]
                      ELSE [st EXCEPT !.comment_block = Append(st.comment_block, <<>>)])
             ELSE [st EXCEPT !.comment_block =
                       Append(st.comment_block, LStrip(LStripHash(line)))]
        ELSE IF st.in_comment_block
        THEN [st EXCEPT !.result = st.result \o st.comment_block \o << <<>>, line >>,
                        !.in_comment_block = FALSE,
                        !.comment_block = <<>>]
        ELSE [st EXCEPT !.result = Append(st.result, line)])

\* the loop state after the lines lo..hi, st being the state before them
RECURSIVE UncommentScan(_, _, _, _)
UncommentScan(lines, st, lo, hi) ==
    IF lo > hi THEN st
    ELSE IF lo = hi THEN UncommentStep(st, lines[lo])
    ELSE WithValue(UncommentScan(lines, st, lo, (lo + hi) \div 2), LAMBDA left :
             UncommentScan(lines, left, (lo + hi) \div 2 + 1, hi))

_uncomment_class_definitions(code) ==
    WithValue(SplitLines(code), LAMBDA lines :
        WithValue(UncommentScan(lines, UncommentStart, 1, Len(lines)), LAMBDA st :
            JoinWith(IF st.comment_block # <<>>
                     THEN st.result \o st.comment_block \o << <<>> >>
                     ELSE st.result,
                     <<NL>>)))

\* --------------------------------- specification: helper reconstructor
MaxLines == 3

\* a line: indentation, then a comment marker and a blank or nothing, then
\* a class header, a statement or nothing
CodeLines ==
    { Indent(n) \o mark \o text :
        n \in 0..2,
        mark \in {<<>>, <<"#", SP>>},
        text \in {<<"class", SP, "A", ":">>, <<"x">>, <<>>} }
    \cup { <<"#", "class", SP, "A", ":">>, <<"#", SP, "class", SP, "A">>, <<"#">> }

InitUncomment ==
    /\ called = "none"
    /\ arg \in SeqsUpTo(CodeLines, MaxLines) \ {<<>>}
    /\ ret = None
    /\ FetchNotRunning
    /\ TestNotRunning

Call_uncomment_class_definitions ==
    /\ called = "none"
    /\ called' = "_uncomment_class_definitions"
    /\ ret' = _uncomment_class_definitions(JoinWith(arg, <<NL>>))
    /\ UNCHANGED <<arg, fetchVars, testVars>>

NextUncomment == Call_uncomment_class_definitions

SpecUncomment == InitUncomment /\ [][NextUncomment]_vars

\* ------------------------------------------------------------- claim C7
\* a line that is comment-marked / that is a commented-out class definition
CommentMarked(line) == LStrip(line) # <<>> /\ LStrip(line)[1] = "#"

CommentedClass(line) ==
    /\ Len(LStrip(line)) >= 4
    /\ SubSeq(LStrip(line), 1, 4) = <<"#", SP, "class", SP>>
    /\ \E i \in 1..Len(line) : line[i] = ":"

\* line i belongs to a block: a commented-out class definition is before it
\* (or is the line itself) and every line from there to i is comment-marked
InBlock(lines, i) ==
    \E j \in 1..i :
        CommentedClass(lines[j]) /\ \A k \in j..i : CommentMarked(lines[k])

OutsideLines(lines) ==
    LET outside == {i \in 1..Len(lines) : ~InBlock(lines, i)}
        RECURSIVE Pick(_)
        Pick(i) == IF i > Len(lines) THEN <<>>
                   ELSE (IF i \in outside THEN <<lines[i]>> ELSE <<>>) \o Pick(i + 1)
    IN  Pick(1)

\* sub is a subsequence of full, in order
RECURSIVE IsSubsequence(_, _)
IsSubsequence(sub, full) ==
    IF sub = <<>> THEN TRUE
    ELSE IF full = <<>> THEN FALSE
    ELSE IF Head(sub) = Head(full) THEN IsSubsequence(Tail(sub), Tail(full))
    ELSE IsSubsequence(sub, Tail(full))

\* the lines before the first commented-out class definition
LinesBeforeBlocks(lines) ==
    IF \E i \in 1..Len(lines) : CommentedClass(lines[i])
    THEN SubSeq(lines, 1, (CHOOSE i \in 1..Len(lines) :
                               /\ CommentedClass(lines[i])
                               /\ \A j \in 1..(i - 1) : ~CommentedClass(lines[j])) - 1)
    ELSE lines

\* C7: on input without commented-out class definition the output equals the
\* input line for line and applying the function again changes nothing; in
\* every case the lines outside the blocks are in the output unmodified, in
\* order, those before the first block at the start of the output.
C7_NoOpWithoutBlocks ==
    called = "_uncomment_class_definitions" =>
        /\ (\A i \in 1..Len(arg) : ~CommentedClass(arg[i])) =>
               /\ SplitLines(ret) = arg
               /\ _uncomment_class_definitions(ret) = ret
        /\ IsSubsequence(OutsideLines(arg), SplitLines(ret))
        /\ StartsWith(SplitLines(ret), LinesBeforeBlocks(arg))

\* comment lines, none of them a class definition with marker, blank and colon
C7_Witness ==
    /\ called = "_uncomment_class_definitions"
    /\ arg = << <<"#", "class", SP, "A", ":">>, <<SP, "#", SP, "x">>, <<"#", SP, "class", SP, "A">> >>
    /\ SplitLines(ret) = arg

\* ------------------------------------------------------------- claim C8
\* C8: every line of a detected block is emitted without leading comment
\* marker.  The blocks checked are those whose lines carry one marker each
\* and the inputs those whose comment-marked lines all belong to a block, so
\* that a marker at the start of an output line is one that was left in place.
C8_BlockLinesUnmarked ==
    called = "_uncomment_class_definitions" =>
        ((\A i \in 1..Len(arg) : CommentMarked(arg[i]) => InBlock(arg, i)) =>
            \A k \in 1..Len(SplitLines(ret)) : ~CommentMarked(SplitLines(ret)[k]))

\* ------------------------------------------------------- _get_python_code
ImportPatterns ==
    << <<<<"List", "[">>, "List">>, <<<<"Optional", "[">>, "Optional">>,
       <<<<"Dict", "[">>, "Dict">>, <<<<"Dictionary", "[">>, "Dict">>,
       <<<<"Set", "[">>, "Set">>, <<<<"Tuple", "[">>, "Tuple">>,
       <<<<"Union", "[">>, "Union">>, <<<<"Deque", "[">>, "Deque">>,
       <<<<"deque">>, "Deque">> >>

\* sorted(imports)
SortedImportNames == <<"Deque", "Dict", "List", "Optional", "Set", "Tuple", "Union">>

_extract_imports(code) ==
    WithValue({ImportPatterns[i][2] :
                   i \in {k \in 1..Len(ImportPatterns) :
                              ContainsSeq(code, ImportPatterns[k][1])}}, LAMBDA imports :
        WithValue(SelectSeq(SortedImportNames, LAMBDA name : name \in imports),
                  LAMBDA typing_imports :
            IF imports # {}
            THEN <<"from typing import ">>
                 \o JoinWith([i \in 1..Len(typing_imports) |-> <<typing_imports[i]>>],
                             <<",", SP>>)
            ELSE <<>>))

\* lines[method_line_idx] is lines[i]
_is_empty_method(lines, i) ==
    IF i + 1 > Len(lines) THEN TRUE
    ELSE LET next_line == lines[i + 1]
         IN  IF StartsWith(Strip(next_line), <<"#">>) THEN FALSE
             ELSE LET current_indent == IndentOf(lines[i])
                      next_indent == IF Strip(next_line) # <<>> THEN IndentOf(next_line)
                                     ELSE current_indent
                  IN  next_indent <= current_indent \/ Strip(next_line) = <<>>

\* what the loop of _ensure_pass_in_methods appends for line i
EnsurePassAt(lines, i) ==
    WithValue(Strip(lines[i]), LAMBDA stripped :
        LET line == lines[i]
        IN  IF /\ ~StartsWith(stripped, <<"#">>)
               /\ ContainsSeq(line, <<"def", SP>>)
               /\ stripped # <<>> /\ stripped[Len(stripped)] = ":"
               /\ _is_empty_method(lines, i)
            THEN <<line, Indent(IndentOf(line) + 4) \o <<"pass">>>>
            ELSE <<line>>)

_ensure_pass_in_methods(code) ==
    WithValue(SplitLines(code), LAMBDA lines :
        JoinWith(JoinWith([i \in 1..Len(lines) |-> EnsurePassAt(lines, i)], <<>>), <<NL>>))

NoTemplate == <<"#", SP, "No Python template available">>

\* snippet: None when the problem has no Python3 snippet, else <<code>>
_get_python_code(snippet) ==
    IF snippet = None \/ snippet[1] = <<>> \/ snippet[1] = PyNone THEN NoTemplate
    ELSE WithValue(_uncomment_class_definitions(snippet[1]), LAMBDA uncommented :
             WithValue(_extract_imports(uncommented), LAMBDA imports :
                 LET code == _ensure_pass_in_methods(uncommented)
                 IN  IF imports # <<>> THEN imports \o <<NL, NL>> \o code ELSE code))

\* ---------------------------------------------------- _format_description
\* re.sub(r'<[^>]+>', '', html_content), a tag being one atom
RemoveTags(s) == SelectSeq(s, LAMBDA a : a # Tag)

\* re.sub raises TypeError for None
_html_to_text(html_content) ==
    IF html_content = PyNone THEN Exception("TypeError")
    ELSE WithValue(RemoveTags(html_content), LAMBDA text :
             [i \in 1..Len(text) |->
                 CASE text[i] = "&nbsp;" -> SP
                   [] text[i] = "&lt;" -> "<"
                   [] text[i] = "&gt;" -> ">"
                   [] text[i] = AmpEntity -> "&"
                   [] OTHER -> text[i]])

\* the lines of the text, each behind a comment mark
CommentedLines(text) ==
    WithValue(SplitLines(Strip(text)), LAMBDA lines :
        JoinWith([i \in 1..Len(lines) |->
                     IF lines[i] # <<>> THEN <<"#", SP>> \o lines[i] ELSE <<"#">>],
                 <<NL>>))

\* a _format_description without the try of python.py:294-300
_format_description_without_try(html_content) ==
    WithValue(_html_to_text(html_content), LAMBDA text :
        IF IsException(text) THEN text ELSE CommentedLines(text))

_format_description(html_content) ==
    WithValue(_html_to_text(html_content), LAMBDA text :
        IF IsException(text) THEN <<"# Error formatting description">>
        ELSE CommentedLines(text))

\* ----------------------------------------------------- _format_test_cases
_detect_helpers_needed(code) ==
    [listnode |-> Contains(code, "ListNode") /\ ContainsSeq(code, <<"class", SP, "ListNode">>),
     treenode |-> Contains(code, "TreeNode") /\ ContainsSeq(code, <<"class", SP, "TreeNode">>)]

\* a match of ->\s*([^:]+): that starts at position i: <<group>>, or None
ReturnMatchAt(s, i) ==
    IF s[i] # "->" THEN None
    ELSE WithValue(FirstIn(s, i + 1, {":"}), LAMBDA colon :
             IF colon <= Len(s) /\ colon > i + 1
             THEN Some(SubSeq(s, i + 1, colon - 1))
             ELSE None)

_get_return_type(code) ==
    WithValue({i \in 1..Len(code) : ReturnMatchAt(code, i) # None}, LAMBDA matches :
        IF matches = {} THEN <<"Any">>
        ELSE Strip(ReturnMatchAt(code, Min(matches))[1]))

\* a match of def\s+\w+\s*\(([^)]+)\) that starts at position i
CountMatchAt(s, i) ==
    WithValue(DefMatchAt(s, i), LAMBDA match :
        IF match = None THEN None
        ELSE WithValue(FirstIn(s, match[1].open + 1, {")"}), LAMBDA close :
                 IF close <= Len(s) /\ close > match[1].open + 1
                 THEN Some(SubSeq(s, match[1].open + 1, close - 1))
                 ELSE None))

CountStart == [params |-> <<>>, current |-> <<>>, bracket_depth |-> 0]

\* one iteration of the loop of _count_method_params over params_str
CountStep(st, char) ==
    IF char \in Openers
    THEN [st EXCEPT !.bracket_depth = st.bracket_depth + 1,
                    !.current = st.current \o <<char>>]
    ELSE IF char \in Closers
    THEN [st EXCEPT !.bracket_depth = st.bracket_depth - 1,
                    !.current = st.current \o <<char>>]
    ELSE IF char = "," /\ st.bracket_depth = 0
    THEN WithValue(Strip(st.current), LAMBDA param :
             [st EXCEPT !.params = IF param # <<>>
                                   THEN Append(st.params, param)
                                   ELSE st.params,
                        !.current = <<>>])
    ELSE [st EXCEPT !.current = st.current \o <<char>>]

RECURSIVE CountScan(_, _, _, _)
CountScan(s, st, lo, hi) ==
    IF lo > hi THEN st
    ELSE IF lo = hi THEN CountStep(st, s[lo])
    ELSE WithValue(CountScan(s, st, lo, (lo + hi) \div 2), LAMBDA left :
             CountScan(s, left, (lo + hi) \div 2 + 1, hi))

\* the parameter strings the loop and the statement after it collect
CountedParams(params_str) ==
    WithValue(CountScan(params_str, CountStart, 1, Len(params_str)), LAMBDA st :
        WithValue(Strip(st.current), LAMBDA param :
            IF param # <<>> THEN Append(st.params, param) ELSE st.params))

_count_method_params(code) ==
    WithValue({i \in 1..Len(code) : CountMatchAt(code, i) # None}, LAMBDA matches :
        IF matches = {} THEN 0
        ELSE WithValue(CountMatchAt(code, Min(matches))[1], LAMBDA params_str :
                 WithValue(CountedParams(params_str), LAMBDA params :
                     Cardinality({k \in 1..Len(params) : ~Contains(params[k], "self")}))))

\* str(test_num)
Digits == <<"1", "2", "3", "4", "5", "6", "7", "8", "9">>

\* the lines the loop over the groups of raw lines appends, from group number
\* test_num on
RECURSIVE BasicCalls(_, _, _, _)
BasicCalls(lines, param_count, method_name, test_num) ==
    IF (test_num - 1) * param_count >= Len(lines) THEN <<>>
    ELSE LET inputs == SubSeq(lines, (test_num - 1) * param_count + 1,
                              test_num * param_count)
             call   == <<"solution.">> \o method_name \o <<"(">>
                       \o JoinWith(inputs, <<",", SP>>) \o <<")">>
         IN  << <<"result", Digits[test_num], " = ">> \o call,
                <<"print(f\"Test ", Digits[test_num], ": {result", Digits[test_num], "}\")">>,
                <<>> >>
             \o BasicCalls(lines, param_count, method_name, test_num + 1)

_format_basic_test_cases(test_cases, code) ==
    IF test_cases = <<>> \/ test_cases = PyNone
    THEN <<"    # Add your test cases here", NL, "    pass">>
    ELSE WithValue(_extract_method_name(code), LAMBDA method_name :
         WithValue(SplitLines(Strip(test_cases)), LAMBDA lines :
         WithValue(_count_method_params(code), LAMBDA param_count :
             JoinWith(<< <<"    # NOTE: Expected outputs not available - add assertions manually">>,
                         <<>> >>
                      \o (IF param_count > 0 /\ Len(lines) % param_count = 0
                          THEN BasicCalls(lines, param_count, method_name, 1)
                          ELSE <<>>),
                      <<NL>>))))

_format_test_cases(problem, code) ==
    WithValue(_extract_test_examples(problem.description), LAMBDA examples :
        IF examples = <<>>
        THEN _format_basic_test_cases(problem.test_cases, code)
        ELSE WithValue(_extract_method_name(code), LAMBDA method_name :
             WithValue(_detect_helpers_needed(code), LAMBDA helpers_needed :
             WithValue(_extract_parameter_info(code), LAMBDA param_info :
             WithValue(_get_return_type(code), LAMBDA return_type :
                 _build_test_code(examples, method_name, helpers_needed,
                                  param_info, return_type))))))

\* ----------------------------------------------------- _build_file_content
Rule == "# ============================================================================"

_build_file_content(problem, description, code_template, test_cases) ==
    <<"\"\"\"", NL,
      "LeetCode Problem #", problem.id, ":", SP, problem.title, NL,
      "Difficulty: ", problem.difficulty, NL,
      "\"\"\"", NL,
      NL,
      Rule, NL, "# PROBLEM DESCRIPTION", NL, Rule, NL>>
    \o description
    \o <<NL, NL, Rule, NL, "# SOLUTION", NL, Rule, NL, NL>>
    \o code_template
    \o <<NL, NL, NL, Rule, NL, "# TESTS", NL, Rule, NL, NL,
         "def run_tests():", NL,
         "    \"\"\"Run test cases for the problem.\"\"\"", NL,
         "    solution = Solution()", NL>>
    \o test_cases
    \o <<NL, NL, NL, "if __name__ == \"__main__\":", NL, "    run_tests()", NL>>

\* python.py:92-108: an exception of a step is logged and raised again
format(problem) ==
    WithValue(_get_python_code(problem.snippet), LAMBDA code_template :
    WithValue(_format_description(problem.description), LAMBDA description :
        IF IsException(description) THEN description
        ELSE WithValue(_format_test_cases(problem, code_template), LAMBDA test_cases :
                 IF IsException(test_cases) THEN test_cases
                 ELSE _build_file_content(problem, description, code_template,
                                          test_cases))))

\* ------------------------------------------------ specification: format
MaxFormatSections == 1

FormatDescriptions ==
    {<<>>} \cup {DescriptionOf(sections) : sections \in SeqsUpTo(Sections, MaxFormatSections)}

FormatTestCases == {<<>>, <<"1">>, <<"1", NL, "[", "2", "]">>}

\* a template as LeetCode serves it: the helper class commented out, the
\* method without body
ListNodeTemplate ==
    JoinWith(<< <<"#", SP, "class", SP, "ListNode", ":">>,
                <<"#">> \o Indent(5) \o <<"def", SP, "__init__", "(", "self", ",", SP,
                                          "val", "=", "0", ",", SP, "next", "=", "None", ")", ":">>,
                <<"#">> \o Indent(9) \o <<"self", ".", "val", SP, "=", SP, "val">>,
                <<"class", SP, "Solution", ":">>,
                Indent(4) \o <<"def", SP, "f", "(", "self", ",", SP, "h", ":", SP,
                               "Optional", "[", "ListNode", "]", ")", SP, "->", SP,
                               "Optional", "[", "ListNode", "]", ":">>,
                Indent(8) >>,
             <<NL>>)

\* a template whose signature names ListNode and that holds no class ListNode
ListNodeSignatureTemplate ==
    JoinWith(<< <<"class", SP, "Solution", ":">>,
                Indent(4) \o <<"def", SP, "f", "(", "self", ",", SP, "h", ":", SP,
                               "Optional", "[", "ListNode", "]", ")", SP, "->", SP,
                               "Optional", "[", "ListNode", "]", ":">>,
                Indent(8) >>,
             <<NL>>)

\* None: the problem has no Python3 snippet
FormatSnippets ==
    {None, Some(<<>>), Some(ListNodeTemplate), Some(ListNodeSignatureTemplate)}
    \cup {Some(TemplateCode(template)) :
              template \in {t \in Templates : Len(t.methods) = 1 /\ ~t.class_after}}

InitFormat ==
    /\ called = "none"
    /\ arg \in [id : {"1"}, title : {"T"}, difficulty : {"Easy"},
                description : FormatDescriptions,
                test_cases : FormatTestCases,
                snippet : FormatSnippets]
    /\ ret = None
    /\ FetchNotRunning
    /\ TestNotRunning

Call_format ==
    /\ called = "none"
    /\ called' = "format"
    /\ ret' = format(arg)
    /\ UNCHANGED <<arg, fetchVars, testVars>>

NextFormat == Call_format

SpecFormat == InitFormat /\ [][NextFormat]_vars

\* ------------------------------------------------------------- claim C9
\* C9: the text format returns is valid Python source.  Checked is a
\* condition every valid source meets: an assert statement of the file has
\* an expression before its == operator.
C9_GeneratedFileIsPython ==
    called = "format" =>
        \A lines \in {SplitLines(ret)} :
            \A k \in 1..Len(lines) :
                lines[k] # <<>> /\ lines[k][1] = AssertPrefix =>
                    Len(lines[k]) >= 2 /\ lines[k][2] # " == "

\* ------------------------------------------------------------ fetch command
\* str.lower() of a word that is one atom
LowerWord(word) ==
    CASE word = "Python3" -> "python3"
      [] word = "Java" -> "java"
      [] word = "Easy" -> "easy"
      [] OTHER -> word

\* Problem.get_snippet: the code of the first snippet of the language;
\* snippet.lang.lower() raises AttributeError for a snippet whose lang is None
get_snippet(code_snippets, language) ==
    LET matching == {i \in 1..Len(code_snippets) :
                        /\ code_snippets[i].lang # NoValue
                        /\ LowerWord(code_snippets[i].lang) = LowerWord(language)}
        without  == {i \in 1..Len(code_snippets) : code_snippets[i].lang = NoValue}
        first(S) == Min(S \cup {Len(code_snippets) + 1})
    IN  IF first(without) < first(matching)
        THEN [raises |-> "AttributeError", value |-> None]
        ELSE IF matching # {}
        THEN [raises |-> "none", value |-> Some(code_snippets[first(matching)].code)]
        ELSE [raises |-> "none", value |-> None]

\* str(problem.id)
ProblemNumber(id) == IF id = 0 THEN "0" ELSE Digits[id]

\* formatter.format(problem) as fetch calls it: the exception format logs and
\* raises again, or the text it returns
FormatProblem(problem) ==
    WithValue(get_snippet(problem.code_snippets, "Python3"), LAMBDA snippet :
        IF snippet.raises # "none"
        THEN [raises |-> snippet.raises, value |-> NoValue]
        ELSE WithValue(format([id |-> ProblemNumber(problem.id),
                               title |-> problem.title,
                               difficulty |-> problem.difficulty,
                               description |-> problem.description,
                               test_cases |-> problem.test_cases,
                               snippet |-> snippet.value]), LAMBDA text :
                 IF IsException(text) THEN [raises |-> text[2], value |-> NoValue]
                 ELSE [raises |-> "none", value |-> text]))

\* output_dir / problem.difficulty.lower() / problem.filename
FilePath(problem) ==
    <<LowerWord(problem.difficulty), ProblemNumber(problem.id), problem.title_slug>>

\* FileWriter.write: the file at filepath holds content
Written(fs, text, filepath) ==
    {f \in fs : f.path # filepath} \cup {[path |-> filepath, content |-> text]}

\* DatabaseManager.is_problem_registered
is_problem_registered(rows, source, problem_id) ==
    Cardinality({r \in rows : r.source = source /\ r.problem_id = problem_id}) > 0

\* DatabaseManager.register_problem: what the call returns
register_problem_returns(rows, problem, source, forced) ==
    ~(is_problem_registered(rows, source, ProblemNumber(problem.id)) /\ ~forced)

\* the row database.py:186-200 inserts: str(file_path) or NULL, and the columns
\* the statement does not name at their defaults
InsertedRow(problem, source, file_path) ==
    [source |-> source, problem_id |-> ProblemNumber(problem.id),
     title |-> problem.title, difficulty |-> problem.difficulty,
     file_path |-> file_path, test_status |-> "untested",
     last_test_run |-> "never", test_output |-> None]

\* a register_problem without the check of database.py:181-182
register_problem_always_replaces(rows, problem, source, file_path, forced) ==
    {r \in rows : ~(r.source = source /\ r.problem_id = ProblemNumber(problem.id))}
    \cup {InsertedRow(problem, source, file_path)}

\* a register_problem that updates the row it finds and keeps the columns the
\* statement does not name, instead of replacing the row
register_problem_keeping_test_columns(rows, problem, source, file_path, forced) ==
    IF is_problem_registered(rows, source, ProblemNumber(problem.id)) /\ ~forced
    THEN rows
    ELSE IF is_problem_registered(rows, source, ProblemNumber(problem.id))
    THEN {IF r.source = source /\ r.problem_id = ProblemNumber(problem.id)
          THEN [r EXCEPT !.title = problem.title, !.difficulty = problem.difficulty,
                         !.file_path = file_path]
          ELSE r : r \in rows}
    ELSE rows \cup {InsertedRow(problem, source, file_path)}

\* DatabaseManager.register_problem: INSERT OR REPLACE under
\* UNIQUE(source, problem_id), test_status taking its default
register_problem(rows, problem, source, file_path, forced) ==
    IF is_problem_registered(rows, source, ProblemNumber(problem.id)) /\ ~forced
    THEN rows
    ELSE {r \in rows : ~(r.source = source /\ r.problem_id = ProblemNumber(problem.id))}
         \cup {InsertedRow(problem, source, file_path)}

\* ---------------------------------------------- specification: fetch command
MaxProblemId == 2
MaxBatch == 3

\* what get_problem_by_id meets for a problem number: no such problem, a
\* failing request, a problem, or a problem one of whose snippets has no lang
ServerAnswers == {"not found", "request fails", "problem", "problem without lang"}

ServedSnippets(answer) ==
    IF answer = "problem"
    THEN << [lang |-> "Java", code |-> <<"x">>],
            [lang |-> "Python3",
             code |-> JoinWith(<< <<"class", SP, "Solution", ":">>,
                                  Indent(4) \o <<"def", SP, "f", "(", "self", ",", SP, "a",
                                                 ":", SP, "int", ")", SP, "->", SP, "int",
                                                 ":">>,
                                  Indent(8) >>, <<NL>>)] >>
    ELSE << [lang |-> NoValue, code |-> <<"x">>] >>

\* the record LeetCodeClient._fetch_problem builds for problem number id
ServedProblem(id, answer) ==
    [id |-> id, title |-> "T", title_slug |-> "t", difficulty |-> "Easy",
     description |-> <<Tag, "x", Tag, NL, "Example 1:", NL, InputLabel, SP, "a", "=", "1",
                       NL, OutputLabel, SP, "2", NL>>,
     test_cases |-> <<"1">>,
     code_snippets |-> ServedSnippets(answer)]

\* the problem numbers of a batch that reach the server
Requested(ids) == {ids[k] : k \in 1..Len(ids)} \ {0}

\* the servers a batch can tell apart
Servers(ids) ==
    {s \in [1..MaxProblemId -> ServerAnswers] :
        \A id \in (1..MaxProblemId) \ Requested(ids) : s[id] = "not found"}

\* LeetCodeClient.get_problem_by_id: None, a Problem, or ClickException
get_problem_by_id(problem_id) ==
    IF problem_id = 0 THEN [raises |-> "none", value |-> None]
    ELSE IF server[problem_id] = "request fails"
    THEN [raises |-> "ClickException", value |-> NoValue]
    ELSE IF server[problem_id] = "not found"
    THEN [raises |-> "none", value |-> None]
    ELSE [raises |-> "none", value |-> Some(ServedProblem(problem_id, server[problem_id]))]

IsSorted(ids) == \A i \in 1..(Len(ids) - 1) : ids[i] <= ids[i + 1]

\* the row and the file an earlier fetch of problem number id left
EarlierRow(id) ==
    [source |-> "leetcode", problem_id |-> ProblemNumber(id), title |-> "T",
     difficulty |-> "Easy", file_path |-> Some(<<"easy", ProblemNumber(id), "t">>),
     test_status |-> "passed", last_test_run |-> "earlier",
     test_output |-> Some(<<"o", "k">>)]

EarlierFile(id) == [path |-> <<"easy", ProblemNumber(id), "t">>, content |-> <<"old">>]

InitFetch ==
    /\ called = "none" /\ arg = NoValue /\ ret = None
    /\ problem_ids \in {ids \in SeqsUpTo(0..MaxProblemId, MaxBatch) :
                           ids # <<>> /\ IsSorted(ids)}
    /\ force \in BOOLEAN
    /\ initialized \in BOOLEAN
    /\ server \in Servers(problem_ids)
    /\ pc = "start"
    /\ position = 0
    /\ fetched = NoValue
    /\ content = NoValue
    /\ \E earlier \in SUBSET Requested(problem_ids) :
           /\ ~initialized => earlier = {}
           /\ db = {EarlierRow(id) : id \in earlier}
           /\ files = {EarlierFile(id) : id \in earlier}
    /\ success_count = 0
    /\ skip_count = 0
    /\ raised = "none"
    /\ TestNotRunning

\* an exception leaves fetch; the with statement closes the database
Raise(exception) ==
    /\ pc' = "raised"
    /\ raised' = exception

\* the loop goes on with the next problem_id
Continue ==
    /\ pc' = "fetch"
    /\ position' = position + 1
    /\ fetched' = NoValue
    /\ content' = NoValue
    /\ UNCHANGED raised

\* fetch.py:61-78
Start ==
    /\ pc = "start"
    /\ IF ~initialized
       THEN Raise("ClickException") /\ UNCHANGED position
       ELSE pc' = "fetch" /\ position' = 1 /\ UNCHANGED raised
    /\ UNCHANGED <<functionVars, testVars, problem_ids, force, initialized, server, fetched,
                   content, db, files, success_count, skip_count>>

\* fetch.py:81-84
Fetch ==
    /\ pc = "fetch"
    /\ position <= Len(problem_ids)
    /\ LET answer == get_problem_by_id(problem_ids[position])
       IN  IF answer.raises # "none"
           THEN Raise(answer.raises) /\ UNCHANGED <<position, fetched, content>>
           ELSE IF answer.value = None
           THEN Continue
           ELSE /\ pc' = "check"
                /\ fetched' = answer.value[1]
                /\ UNCHANGED <<position, content, raised>>
    /\ UNCHANGED <<functionVars, testVars, problem_ids, force, initialized, server, db, files,
                   success_count, skip_count>>

\* fetch.py:87-90
CheckRegistered ==
    /\ pc = "check"
    /\ IF ~force /\ is_problem_registered(db, "leetcode", ProblemNumber(fetched.id))
       THEN Continue /\ skip_count' = skip_count + 1
       ELSE /\ pc' = "format"
            /\ UNCHANGED <<position, fetched, content, raised, skip_count>>
    /\ UNCHANGED <<functionVars, testVars, problem_ids, force, initialized, server, db, files,
                   success_count>>

\* fetch.py:93
Format ==
    /\ pc = "format"
    /\ LET formatted == FormatProblem(fetched)
       IN  IF formatted.raises # "none"
           THEN Raise(formatted.raises) /\ UNCHANGED content
           ELSE pc' = "write" /\ content' = formatted.value /\ UNCHANGED raised
    /\ UNCHANGED <<functionVars, testVars, problem_ids, force, initialized, server, position,
                   fetched, db, files, success_count, skip_count>>

\* a loop that registers the problem before it writes the file
Write_after_register ==
    /\ pc = "write"
    /\ db' = register_problem(db, fetched, "leetcode", Some(FilePath(fetched)), force)
    /\ \E disk_ok \in BOOLEAN :
           IF disk_ok
           THEN /\ files' = Written(files, content, FilePath(fetched))
                /\ pc' = "register"
                /\ UNCHANGED raised
           ELSE Raise("OSError") /\ UNCHANGED files
    /\ UNCHANGED <<functionVars, testVars, problem_ids, force, initialized, server, position,
                   fetched, content, success_count, skip_count>>

\* fetch.py:96-97; mkdir or write_text may fail with OSError
Write ==
    /\ pc = "write"
    /\ \E disk_ok \in BOOLEAN :
           IF disk_ok
           THEN /\ files' = Written(files, content, FilePath(fetched))
                /\ pc' = "register"
                /\ UNCHANGED raised
           ELSE Raise("OSError") /\ UNCHANGED files
    /\ UNCHANGED <<functionVars, testVars, problem_ids, force, initialized, server, position,
                   fetched, content, db, success_count, skip_count>>

\* fetch.py:100-109
Register ==
    /\ pc = "register"
    /\ db' = register_problem(db, fetched, "leetcode", Some(FilePath(fetched)), force)
    /\ success_count' = success_count + 1
    /\ Continue
    /\ UNCHANGED <<functionVars, testVars, problem_ids, force, initialized, server, files,
                   skip_count>>

\* fetch.py:111-113
Summary ==
    /\ pc = "fetch"
    /\ position > Len(problem_ids)
    /\ pc' = "done"
    /\ UNCHANGED <<functionVars, testVars, problem_ids, force, initialized, server, position,
                   fetched, content, db, files, success_count, skip_count, raised>>

NextFetch ==
    \/ Start
    \/ Fetch
    \/ CheckRegistered
    \/ Format
    \/ Write
    \/ Register
    \/ Summary

SpecFetch == InitFetch /\ [][NextFetch]_vars

\* ------------------------------------------------------------ claim C10
\* fetch has returned or an exception has left it
Terminated == pc \in {"done", "raised"}

\* a problem number the client delivers and the formatter formats
Deliverable(id) ==
    /\ id # 0
    /\ server[id] \in {"problem", "problem without lang"}
    /\ FormatProblem(ServedProblem(id, server[id])).raises = "none"

\* the problem is registered and its file is there; under --force they are
\* the row and the file of this run
Processed(id) ==
    LET problem == ServedProblem(id, server[id])
    IN  /\ is_problem_registered(db, "leetcode", ProblemNumber(id))
        /\ \E f \in files : f.path = FilePath(problem)
        /\ force =>
               /\ [path |-> FilePath(problem), content |-> FormatProblem(problem).value]
                      \in files
               /\ \A r \in db : r.problem_id = ProblemNumber(id) =>
                                    r.test_status = "untested"

\* C10: when a request of the client fails or format raises for one problem
\* number of a batch, the problem numbers after it are still fetched,
\* formatted, written and registered: once fetch has ended, with no failure
\* or with a failure of one of these two kinds, every problem number of the
\* batch that can be delivered has been processed.
C10_FailureDoesNotAbortBatch ==
    (Terminated /\ initialized /\ raised \in {"none", "ClickException", "AttributeError"})
        => \A k \in 1..Len(problem_ids) :
               Deliverable(problem_ids[k]) => Processed(problem_ids[k])

\* ------------------------------- specification: fetch, then register_problem
\* the record a caller of the database passes for problem number id
UpdatedProblem(id) == [ServedProblem(id, "problem") EXCEPT !.title = "Updated"]

\* database.py:159-203 called on the database a fetch has left, as
\* test_database.py:214-266 calls it: source and file_path take their defaults
Call_register_problem ==
    /\ pc = "done"
    /\ called = "none"
    /\ \E id \in 1..MaxProblemId, forced \in BOOLEAN :
           /\ called' = "register_problem"
           /\ arg' = [problem |-> UpdatedProblem(id), force |-> forced]
           /\ db' = register_problem(db, UpdatedProblem(id), "leetcode", None, forced)
           /\ ret' = Some(register_problem_returns(db, UpdatedProblem(id), "leetcode",
                                                   forced))
    /\ UNCHANGED <<testVars, problem_ids, force, initialized, server, pc, position,
                   fetched, content, files, success_count, skip_count, raised>>

NextFetchThenRegister ==
    \/ NextFetch
    \/ Call_register_problem

SpecFetchThenRegister == InitFetch /\ [][NextFetchThenRegister]_vars

\* ------------------------------------------------------------ claim C11
\* the rows of problem number id
RowsOf(rows, id) == {r \in rows : r.source = "leetcode" /\ r.problem_id = ProblemNumber(id)}

\* fetch.py:87-90 without --force on a registered problem: one step to the
\* next problem number, one more skip, database and files as they were
SkipsRegistered ==
    (pc = "check" /\ ~force /\ RowsOf(db, fetched.id) # {})
        => /\ db' = db /\ files' = files
           /\ skip_count' = skip_count + 1
           /\ success_count' = success_count
           /\ pc' = "fetch" /\ position' = position + 1

\* fetch.py:87-109 with --force: a registered problem is not skipped, and
\* when its iteration ends the file holds the new text and the only row of
\* the problem is the new row
ForceOverwrites ==
    /\ (pc = "check" /\ force)
           => pc' = "format" /\ skip_count' = skip_count /\ db' = db /\ files' = files
    /\ (pc = "register" /\ force)
           => /\ [path |-> FilePath(fetched), content |-> FormatProblem(fetched).value]
                     \in files'
              /\ \A f \in files' : f.path = FilePath(fetched) => f.content # <<"old">>
              /\ RowsOf(db', fetched.id)
                     = {[source |-> "leetcode", problem_id |-> ProblemNumber(fetched.id),
                         title |-> fetched.title, difficulty |-> fetched.difficulty,
                         file_path |-> Some(FilePath(fetched)),
                         test_status |-> "untested", last_test_run |-> "never",
                         test_output |-> None]}
              /\ db' \ RowsOf(db', fetched.id) = db \ RowsOf(db, fetched.id)

\* database.py:159-203: on a registered problem force=False returns False and
\* leaves the rows alone, force=True returns True and stores the new data
RegisterProblemContract ==
    (called = "none" /\ called' = "register_problem")
        => LET id == arg'.problem.id
               existed == RowsOf(db, id) # {}
           IN  /\ (existed /\ ~arg'.force) => ret' = Some(FALSE) /\ db' = db
               /\ (existed /\ arg'.force)
                      => /\ ret' = Some(TRUE)
                         /\ \E r \in db' : RowsOf(db', id) = {r} /\ r.title = "Updated"
                         /\ db' \ RowsOf(db', id) = db \ RowsOf(db, id)

\* C11: fetch without --force skips a problem that is already registered (its
\* file is not rewritten, its row is unchanged, the skip counter goes up by
\* one); with --force the file is overwritten and the row replaced; on a
\* registered problem register_problem with force=False returns False and
\* leaves the database unchanged, with force=True it returns True and stores
\* the new data.
C11_SkipUnlessForced ==
    [][SkipsRegistered /\ ForceOverwrites /\ RegisterProblemContract]_vars

\* a fetch without --force has skipped a registered problem, whose row and
\* file are the earlier ones, and register_problem has then returned False
C11_Witness ==
    /\ pc = "done" /\ ~force /\ skip_count > 0
    /\ called = "register_problem" /\ ~arg.force /\ ret = Some(FALSE)
    /\ EarlierRow(arg.problem.id) \in db
    /\ EarlierFile(arg.problem.id) \in files

\* a fetch with --force has replaced the row and the file of a registered
\* problem
C11_ForcedWitness ==
    /\ pc = "done" /\ force /\ success_count > 0
    /\ \E id \in Requested(problem_ids) :
           /\ EarlierRow(id) \notin db /\ RowsOf(db, id) # {}
           /\ EarlierFile(id) \notin files

\* ------------------------------------------------------------ executor
\* a text of n characters
Chars(n) == [k \in 1..n |-> "x"]

\* dataclass ExecutionResult
ExecutionResult(is_passed, output, error, status) ==
    [passed |-> is_passed, output |-> output, error |-> error, status |-> status]

\* executor.py:48-54
RunTest ==
    /\ xpc = "run_test"
    /\ IF ~target.exists
       THEN /\ result' = ExecutionResult(FALSE, <<>>, Some(<<"File not found">>), "error")
            /\ xpc' = "returned"
       ELSE /\ xpc' = "subprocess.run"
            /\ UNCHANGED result
    /\ UNCHANGED <<functionVars, fetchVars, commandVars, timeout, target, child>>

\* executor.py:58-64: subprocess.run starts the child, or Popen raises and
\* executor.py:90-96 handles the exception
Spawn ==
    /\ xpc = "subprocess.run"
    /\ IF target.spawns
       THEN /\ child' = "running"
            /\ xpc' = "communicate"
            /\ UNCHANGED result
       ELSE /\ result' = ExecutionResult(FALSE, <<>>,
                                         Some(<<"Error running test: ", "OSError">>),
                                         "error")
            /\ xpc' = "returned"
            /\ UNCHANGED child
    /\ UNCHANGED <<functionVars, fetchVars, commandVars, timeout, target>>

\* the child ends within the timeout
ChildExits ==
    /\ xpc = "communicate"
    /\ child = "running"
    /\ target.duration <= timeout
    /\ child' = "exited"
    /\ UNCHANGED <<functionVars, fetchVars, commandVars, timeout, target, xpc, result>>

\* executor.py:58-64 with text=True: the bytes the child wrote are no text in
\* the encoding, communicate raises UnicodeDecodeError and executor.py:90-96
\* handles the exception
DecodeFails ==
    /\ xpc = "communicate"
    /\ child = "exited"
    /\ ~target.decodable
    /\ result' = ExecutionResult(FALSE, <<>>,
                                 Some(<<"Error running test: ", "UnicodeDecodeError">>),
                                 "error")
    /\ xpc' = "returned"
    /\ UNCHANGED <<functionVars, fetchVars, commandVars, timeout, target, child>>

\* executor.py:66-80: subprocess.run has returned a CompletedProcess
Completed ==
    /\ xpc = "communicate"
    /\ child = "exited"
    /\ target.decodable
    /\ result' = IF target.returncode = 0
                 THEN ExecutionResult(TRUE, target.stdout, None, "passed")
                 ELSE ExecutionResult(FALSE, target.stdout, Some(target.stderr), "failed")
    /\ xpc' = "returned"
    /\ UNCHANGED <<functionVars, fetchVars, commandVars, timeout, target, child>>

\* a subprocess.run that raises TimeoutExpired without killing the child
TimeoutExpired_child_left_running ==
    /\ xpc = "communicate"
    /\ child = "running"
    /\ target.duration >= timeout
    /\ child' = "running"
    /\ xpc' = "except TimeoutExpired"
    /\ UNCHANGED <<functionVars, fetchVars, commandVars, timeout, target, result>>

\* the timeout passes with the child still running: subprocess.run kills the
\* child, waits for it and raises TimeoutExpired
TimeoutExpired ==
    /\ xpc = "communicate"
    /\ child = "running"
    /\ target.duration >= timeout
    /\ child' = "killed"
    /\ xpc' = "except TimeoutExpired"
    /\ UNCHANGED <<functionVars, fetchVars, commandVars, timeout, target, result>>

\* executor.py:82-88
HandleTimeout ==
    /\ xpc = "except TimeoutExpired"
    /\ result' = ExecutionResult(FALSE, <<>>,
                                 Some(<<"Test timed out after ", ToString(timeout), " seconds">>),
                                 "error")
    /\ xpc' = "returned"
    /\ UNCHANGED <<functionVars, fetchVars, commandVars, timeout, target, child>>

NextRunTest ==
    \/ RunTest
    \/ Spawn
    \/ ChildExits
    \/ DecodeFails
    \/ Completed
    \/ TimeoutExpired
    \/ HandleTimeout

\* ---------------------------------------------------- specification: run_test
MaxTimeout == 2
MaxReturnCode == 1
MaxOutput == 2

\* the files run_test can be called with under an executor of the given timeout
Targets(seconds) ==
    [exists : BOOLEAN, spawns : BOOLEAN, has_run_tests : {TRUE}, has_main_guard : {TRUE},
     duration : 0..(seconds + 1), returncode : (-1)..MaxReturnCode,
     decodable : BOOLEAN,
     stdout : {Chars(n) : n \in {0, MaxOutput}},
     stderr : {Chars(n) : n \in {0, MaxOutput}}]

\* what the test command leaves alone while it does not run
CommandNotRunning ==
    /\ disk = <<>>
    /\ stop_on_fail = FALSE
    /\ tpc = "not running"
    /\ problems = <<>>
    /\ current = 0
    /\ total = 0
    /\ passed = 0
    /\ failed = 0
    /\ errors = 0
    /\ skipped = 0
    /\ exit = "running"

InitExecutor ==
    /\ called = "none" /\ arg = NoValue /\ ret = None
    /\ FetchNotRunning
    /\ CommandNotRunning
    /\ timeout \in 1..MaxTimeout
    /\ target \in Targets(timeout)
    /\ xpc = "run_test"
    /\ child = "not started"
    /\ result = NoValue

SpecExecutor == InitExecutor /\ [][NextRunTest]_vars

\* ------------------------------------------------------------ claim C12
\* the child has run for longer than the timeout of the executor
ExceededTimeout == target.exists /\ target.spawns /\ target.duration > timeout

\* C12: when the child exceeds the timeout of the executor, run_test returns
\* status 'error', passed=False and an error text saying that the test timed
\* out, never 'passed' or 'failed'; and no child is running when run_test
\* has returned.
C12_TimeoutIsError ==
    xpc = "returned"
        => /\ child # "running"
           /\ ExceededTimeout
                  => /\ child = "killed"
                     /\ result.status = "error"
                     /\ result.passed = FALSE
                     /\ result.error # None
                     /\ result.error[1][1] = "Test timed out after "

\* run_test has returned from a run whose child exceeded the timeout
C12_Witness ==
    /\ xpc = "returned"
    /\ ExceededTimeout
    /\ child = "killed"
    /\ result.status = "error"

\* ------------------------------------------------------------ claim C13
\* spawning the child raised
SpawnRaised == target.exists /\ ~target.spawns

\* C13: run_test returns exactly one of three statuses: 'passed' (passed=True,
\* error=None) exactly when the child exits with code 0, 'failed'
\* (passed=False, error=stderr) when it exits with another code, 'error'
\* (passed=False) when the file is missing, the run times out or spawning
\* raises; passed is True iff the status is 'passed'; and no child is started
\* for a missing file.
C13_StatusByExitCode ==
    /\ ~target.exists => child = "not started"
    /\ xpc = "returned"
           => /\ result.status \in {"passed", "failed", "error"}
              /\ result.passed <=> result.status = "passed"
              /\ result.status = "passed" <=> (child = "exited" /\ target.returncode = 0)
              /\ result.status = "passed" => result.error = None
              /\ (child = "exited" /\ target.returncode # 0)
                     => /\ result.status = "failed"
                        /\ result.error = Some(target.stderr)
              /\ (~target.exists \/ child = "killed" \/ SpawnRaised)
                     => result.status = "error"

\* --------------------------------------------------------- test command
\* test.py:45
TestTimeout == 30

\* test.py:93: the slice of result.output that is stored
OutputLimit == 500

\* Executor.validate_test_file
validate_test_file(file) == file.exists /\ file.has_run_tests /\ file.has_main_guard

\* DatabaseManager.list_problems: ORDER BY problem_id ASC
RECURSIVE list_problems(_)
list_problems(rows) ==
    IF rows = {} THEN <<>>
    ELSE LET first == CHOOSE r \in rows :
                          \A o \in rows : \E k \in 1..Len(Digits) :
                              /\ Digits[k] = r.problem_id
                              /\ \E j \in k..Len(Digits) : Digits[j] = o.problem_id
         IN  <<first>> \o list_problems(rows \ {first})

\* DatabaseManager.update_test_status on the row problem of list_problems
update_test_status(rows, problem, status, output) ==
    {IF r = problem
     THEN [r EXCEPT !.test_status = status, !.last_test_run = "this run",
                    !.test_output = Some(output)]
     ELSE r : r \in rows}

\* s[:n]
Prefix(s, n) == SubSeq(s, 1, Min({n, Len(s)}))

\* test.py:93
output_to_store(res) ==
    IF res.error # None /\ res.error[1] # <<>> THEN res.error[1]
    ELSE Prefix(res.output, OutputLimit)

\* the loop goes on with the next problem
NextProblem ==
    /\ tpc' = "for problem"
    /\ current' = current + 1

\* test.py:36-67
TestStart ==
    /\ tpc = "test"
    /\ IF ~initialized
       THEN /\ exit' = "ClickException"
            /\ tpc' = "ended"
            /\ UNCHANGED <<timeout, problems, current, total>>
       ELSE /\ timeout' = TestTimeout
            /\ problems' = list_problems(db)
            /\ IF db = {}
               THEN /\ exit' = "returned"
                    /\ tpc' = "ended"
                    /\ UNCHANGED <<current, total>>
               ELSE /\ total' = Cardinality(db)
                    /\ current' = 1
                    /\ tpc' = "for problem"
                    /\ UNCHANGED exit
    /\ UNCHANGED <<functionVars, fetchVars, target, xpc, child, result, disk,
                   stop_on_fail, passed, failed, errors, skipped>>

\* test.py:69-90: up to the call of executor.run_test
TestProblem ==
    /\ tpc = "for problem"
    /\ current <= Len(problems)
    /\ LET problem == problems[current]
       IN  IF problem.file_path = None
           THEN /\ skipped' = skipped + 1
                /\ NextProblem
                /\ UNCHANGED <<db, errors, target, xpc, child>>
           ELSE IF ~validate_test_file(disk[problem.file_path[1]])
           THEN /\ db' = update_test_status(db, problem, "error", <<"Invalid test file">>)
                /\ errors' = errors + 1
                /\ NextProblem
                /\ UNCHANGED <<skipped, target, xpc, child>>
           ELSE /\ tpc' = "run_test"
                /\ xpc' = "run_test"
                /\ target' = disk[problem.file_path[1]]
                /\ child' = "not started"
                /\ UNCHANGED <<db, current, errors, skipped>>
    /\ UNCHANGED <<functionVars, problem_ids, force, initialized, server, pc, position,
                   fetched, content, files, success_count, skip_count, raised,
                   timeout, result, disk, stop_on_fail, problems, total, passed,
                   failed, exit>>

\* test.py:92-133: from the return of executor.run_test on
TestRecord ==
    /\ tpc = "run_test"
    /\ xpc = "returned"
    /\ db' = update_test_status(db, problems[current], result.status,
                                output_to_store(result))
    /\ passed' = IF result.status = "passed" THEN passed + 1 ELSE passed
    /\ failed' = IF result.status = "failed" THEN failed + 1 ELSE failed
    /\ errors' = IF result.status \notin {"passed", "failed"} THEN errors + 1 ELSE errors
    /\ IF result.status # "passed" /\ stop_on_fail
       THEN tpc' = "summary" /\ UNCHANGED current
       ELSE NextProblem
    /\ UNCHANGED <<functionVars, problem_ids, force, initialized, server, pc, position,
                   fetched, content, files, success_count, skip_count, raised,
                   executorVars, disk, stop_on_fail, problems, total, skipped, exit>>

\* the summary with an exit status that looks at the failed counter alone
TestSummary_failed_only ==
    /\ \/ tpc = "summary"
       \/ tpc = "for problem" /\ current > Len(problems)
    /\ exit' = IF failed > 0 THEN "ClickException" ELSE "returned"
    /\ tpc' = "ended"
    /\ UNCHANGED <<functionVars, fetchVars, executorVars, disk, stop_on_fail, problems,
                   current, total, passed, failed, errors, skipped>>

\* test.py:135-149
TestSummary ==
    /\ \/ tpc = "summary"
       \/ tpc = "for problem" /\ current > Len(problems)
    /\ exit' = IF failed > 0 \/ errors > 0 THEN "ClickException" ELSE "returned"
    /\ tpc' = "ended"
    /\ UNCHANGED <<functionVars, fetchVars, executorVars, disk, stop_on_fail, problems,
                   current, total, passed, failed, errors, skipped>>

NextTestCommand ==
    \/ TestStart
    \/ TestProblem
    \/ NextRunTest
    \/ TestRecord
    \/ TestSummary

\* ------------------------------------------------ specification: test command
MaxProblems == 2

\* a file that exists, is a valid test file and runs to the end
GoodFile ==
    [exists |-> TRUE, spawns |-> TRUE, has_run_tests |-> TRUE, has_main_guard |-> TRUE,
     duration |-> 0, returncode |-> 0, decodable |-> TRUE, stdout |-> Chars(2),
     stderr |-> <<>>]

\* the files the rows of the table can point to
TestFiles ==
    {[GoodFile EXCEPT !.exists = FALSE],
     [GoodFile EXCEPT !.has_run_tests = FALSE],
     [GoodFile EXCEPT !.has_main_guard = FALSE],
     [GoodFile EXCEPT !.spawns = FALSE],
     [GoodFile EXCEPT !.duration = TestTimeout + 1],
     [GoodFile EXCEPT !.decodable = FALSE]}
    \cup {[GoodFile EXCEPT !.stdout = out] : out \in {Chars(2), Chars(OutputLimit + 1)}}
    \cup {[GoodFile EXCEPT !.returncode = 1, !.stdout = out, !.stderr = err] :
              out \in {Chars(2), Chars(OutputLimit + 1)},
              err \in {<<>>, Chars(OutputLimit + 1)}}

\* the row of problem number id as fetch registers it, with or without a path
FetchedRow(id, with_path) ==
    [source |-> "leetcode", problem_id |-> ProblemNumber(id), title |-> "T",
     difficulty |-> "Easy",
     file_path |-> IF with_path THEN Some(<<"easy", ProblemNumber(id), "t">>) ELSE None,
     test_status |-> "untested", last_test_run |-> "never", test_output |-> None]

InitTestCommand ==
    /\ called = "none" /\ arg = NoValue /\ ret = None
    /\ problem_ids = <<>> /\ force = FALSE /\ server = <<>> /\ pc = "not running"
    /\ position = 0 /\ fetched = NoValue /\ content = NoValue /\ files = {}
    /\ success_count = 0 /\ skip_count = 0 /\ raised = "none"
    /\ initialized \in BOOLEAN
    /\ \E count \in 0..MaxProblems, with_path \in [1..MaxProblems -> BOOLEAN] :
           /\ ~initialized => count = 0
           /\ \A id \in (count + 1)..MaxProblems : with_path[id]
           /\ db = {FetchedRow(id, with_path[id]) : id \in 1..count}
           /\ disk \in [{<<"easy", ProblemNumber(id), "t">> :
                            id \in {i \in 1..count : with_path[i]}} -> TestFiles]
    /\ stop_on_fail \in BOOLEAN
    /\ timeout = 0 /\ target = NoValue /\ xpc = "not running"
    /\ child = "not started" /\ result = NoValue
    /\ tpc = "test" /\ problems = <<>> /\ current = 0
    /\ total = 0 /\ passed = 0 /\ failed = 0 /\ errors = 0 /\ skipped = 0
    /\ exit = "running"

SpecTestCommand == InitTestCommand /\ [][NextTestCommand]_vars

\* ------------------------------------------------------------ claim C14
\* C14: the text the test command stores for a test run (captured output or
\* error text passed to update_test_status) is truncated to a bounded size
\* whatever the length of the stdout or stderr of the child: no stored
\* test_output is longer than the limit of test.py:93.
C14_StoredTextBounded ==
    \A r \in db : r.test_output # None => Len(r.test_output[1]) <= OutputLimit

\* ------------------------------------- specification: format of any record
\* descriptions: None, empty, broken HTML, an example, an example cut short
RecordDescriptions ==
    {PyNone, <<>>, <<"<", "p", "x", AmpEntity, "&">>,
     <<Tag, "&", "x", Tag, NL, "Example 1:", NL, InputLabel, SP, "a", "=", "1", NL,
       OutputLabel, SP, "2", NL>>,
     <<"Example 1:", InputLabel>>}

RecordTestCases == {PyNone, <<>>, <<"1">>, <<"1", NL, "2">>}

\* code_snippets: none, a code of None, a lang of None, templates that are no
\* Python, the template of a served problem
RecordSnippets ==
    {<<>>,
     <<[lang |-> "Python3", code |-> PyNone]>>,
     <<[lang |-> NoValue, code |-> <<"x">>]>>,
     <<[lang |-> "Java", code |-> <<"x">>],
       [lang |-> "Python3", code |-> <<"def", SP, "(", ":", NL, "#", "class">>]>>,
     <<[lang |-> "Python3", code |-> <<"class", SP, ":", NL, SP, "def", SP, ")", "->">>]>>,
     ServedSnippets("problem")}

InitFormatRecord ==
    /\ called = "none"
    /\ arg \in [id : {1}, title : {"T"}, title_slug : {"t"}, difficulty : {"Easy"},
                description : RecordDescriptions,
                test_cases : RecordTestCases,
                code_snippets : RecordSnippets]
    /\ ret = None
    /\ FetchNotRunning
    /\ TestNotRunning

\* formatter.format(problem) for a Problem record
Call_format_record ==
    /\ called = "none"
    /\ called' = "format"
    /\ ret' = FormatProblem(arg)
    /\ UNCHANGED <<arg, fetchVars, testVars>>

NextFormatRecord == Call_format_record

SpecFormatRecord == InitFormatRecord /\ [][NextFormatRecord]_vars

\* ------------------------------------------------------------ claim C15
\* problem.get_snippet raises for the record
AccessorThrows(problem) == get_snippet(problem.code_snippets, "Python3").raises # "none"

\* the record has no usable Python3 template
WithoutTemplate(problem) ==
    \A snippet \in {get_snippet(problem.code_snippets, "Python3")} :
        snippet.value = None \/ snippet.value[1] \in {<<>>, PyNone}

\* C15: format does not raise for malformed content (a description that is
\* broken HTML or None, any code template, test-case text that is None): it
\* returns a text in which the part that could not be built is a fallback.
\* It raises only when an accessor of the record throws.
C15_FormatFallsBack ==
    called = "format" =>
        /\ ret.raises # "none" <=> AccessorThrows(arg)
        /\ ret.raises = "none" =>
               /\ ret.value # <<>>
               /\ arg.description = PyNone
                      => ContainsSeq(ret.value, <<"# Error formatting description">>)
               /\ WithoutTemplate(arg) => ContainsSeq(ret.value, NoTemplate)
               /\ (arg.test_cases \in {PyNone, <<>>}
                       /\ _extract_test_examples(arg.description) = <<>>)
                      => ContainsSeq(ret.value,
                                     <<"    # Add your test cases here", NL, "    pass">>)

\* format has returned a text for a record whose description and test cases
\* are None and whose template is no Python
C15_Witness ==
    /\ called = "format"
    /\ arg.description = PyNone
    /\ arg.test_cases = PyNone
    /\ Len(arg.code_snippets) = 2
    /\ ret.raises = "none"
    /\ ContainsSeq(ret.value, <<"# Error formatting description">>)

\* ------------------------ specification: calls of format on one formatter
\* python.py:88-90: the only attribute of a PythonFormatter is its logger, so
\* the state of the calls is the records given so far and what was returned
MaxCalls == 3

CallRecords ==
    {[id |-> 1, title |-> "T", title_slug |-> "t", difficulty |-> "Easy",
      description |-> description, test_cases |-> <<"1">>, code_snippets |-> snippets] :
         description \in {PyNone, <<"Example 1:", InputLabel>>,
                          <<Tag, "x", Tag, NL, "Example 1:", NL, InputLabel, SP, "a", "=",
                            "1", NL, OutputLabel, SP, "2", NL>>},
         snippets \in {ServedSnippets("problem"), ServedSnippets("problem without lang")}}

InitFormatCalls ==
    /\ called = "none"
    /\ arg = <<>>
    /\ ret = <<>>
    /\ FetchNotRunning
    /\ TestNotRunning

\* a format that writes the number of earlier calls into the file header
Call_format_again_counting ==
    /\ Len(arg) < MaxCalls
    /\ \E record \in CallRecords :
           /\ called' = "format"
           /\ arg' = Append(arg, record)
           /\ ret' = Append(ret, FormatProblem([record EXCEPT
                                                   !.title = ToString(Len(arg))]))
    /\ UNCHANGED <<fetchVars, testVars>>

\* one more call formatter.format(record) on the same PythonFormatter
Call_format_again ==
    /\ Len(arg) < MaxCalls
    /\ \E record \in CallRecords :
           /\ called' = "format"
           /\ arg' = Append(arg, record)
           /\ ret' = Append(ret, FormatProblem(record))
    /\ UNCHANGED <<fetchVars, testVars>>

NextFormatCalls == Call_format_again

SpecFormatCalls == InitFormatCalls /\ [][NextFormatCalls]_vars

MaxPassLines == 3

\* a class header, method headers at two depths, a commented-out header, a
\* comment, statements at two depths, an empty line
PassLines ==
    {<<"class", SP, "Solution", ":">>,
     Indent(4) \o <<"def", SP, "f", "(", "self", ")", ":">>,
     Indent(4) \o <<"def", SP, "g", "(", "self", ",", SP, "a", ":", SP, "int", ")", SP,
                    "->", SP, "int", ":">>,
     Indent(8) \o <<"def", SP, "h", "(", ")", ":">>,
     Indent(4) \o <<"#", SP, "def", SP, "f", "(", "self", ")", ":">>,
     Indent(8) \o <<"#", SP, "x">>,
     Indent(8) \o <<"return", SP, "1">>,
     Indent(4) \o <<"x", SP, "=", SP, "1">>,
     <<>>}

InitEnsurePass ==
    /\ called = "none"
    /\ arg \in SeqsUpTo(PassLines, MaxPassLines) \ {<<>>}
    /\ ret = None
    /\ FetchNotRunning
    /\ TestNotRunning

Call_ensure_pass_in_methods ==
    /\ called = "none"
    /\ called' = "_ensure_pass_in_methods"
    /\ ret' = _ensure_pass_in_methods(JoinWith(arg, <<NL>>))
    /\ UNCHANGED <<arg, fetchVars, testVars>>

NextEnsurePass == Call_ensure_pass_in_methods

SpecEnsurePass == InitEnsurePass /\ [][NextEnsurePass]_vars

\* ------------------------------------------------------------ claim C17
\* line i is the header of a method: a def that ends with a colon and is not
\* commented out
MethodHeader(lines, i) ==
    \A stripped \in {Strip(lines[i])} :
        /\ stripped # <<>>
        /\ ~StartsWith(stripped, <<"#">>)
        /\ ContainsSeq(lines[i], <<"def", SP>>)
        /\ stripped[Len(stripped)] = ":"

\* the body of the method of line i is empty: the next line is not more
\* deeply indented, or it is a comment, or there is no next line
EmptyBody(lines, i) ==
    \/ i = Len(lines)
    \/ Strip(lines[i + 1]) = <<>>
    \/ StartsWith(Strip(lines[i + 1]), <<"#">>)
    \/ IndentOf(lines[i + 1]) <= IndentOf(lines[i])

\* the lines with one pass after the header of every method of empty body
WithPass(lines) ==
    JoinWith([i \in 1..Len(lines) |->
                 IF MethodHeader(lines, i) /\ EmptyBody(lines, i)
                 THEN <<lines[i], Indent(IndentOf(lines[i]) + 4) \o <<"pass">>>>
                 ELSE <<lines[i]>>],
             <<>>)

\* C17: every method whose body is empty (the line after its header is not
\* more deeply indented, or is a comment) gets exactly one pass directly
\* after the header, four blanks deeper than the header; a method with a
\* body gets none; all other lines stay as they are.
C17_PassInEmptyMethods ==
    called = "_ensure_pass_in_methods" => SplitLines(ret) = WithPass(arg)

\* ------------------------------------------------------------ claim C18
\* the template with the signature of every method written on one line
OnOneLine(template) ==
    [template EXCEPT !.methods = [i \in 1..Len(template.methods) |->
                                     [template.methods[i] EXCEPT !.layout = "one line"]]]

\* C18: a signature written on several lines is read as one unit: the
\* analyzer returns the method name and the ordered parameter list (names
\* and types) it returns for the same signature written on one line; a
\* method whose only parameter is self has the empty parameter list.
C18_SeveralLinesAsOne ==
    /\ called = "_extract_method_name"
           => ret = _extract_method_name(TemplateCode(OnOneLine(arg)))
    /\ called = "_extract_parameter_info"
           => /\ ret = _extract_parameter_info(TemplateCode(OnOneLine(arg)))
              /\ (\A i \in 1..Len(arg.methods) : arg.methods[i].params = <<>>)
                     => ret = <<>>

\* ------------------------------------------------------------ claim C19
\* quote_char of the loop of _parse_input_line after the first k characters
QuoteCharAfter(input_text, k) ==
    InputScan(input_text, InputStart, 1, k).quote_char

\* C19: the quoted state of the input-line parser is entered by a quote
\* character and left only by an unescaped occurrence of the same quote
\* character; the other quote character or a backslash-escaped quote inside
\* the string does not end it, so a comma after such a character inside the
\* string is not a segment boundary: after every prefix of the line the
\* parser is inside a string exactly when the prefix ends inside a string
\* literal, and the string is one of the same quote character.
C19_QuotedUntilSameUnescapedQuote ==
    called = "_parse_input_line" =>
        \A k \in 1..Len(arg) : QuoteCharAfter(arg, k) = QuoteBefore(arg, k + 1)

\* ------------------------------------------------------------ claim C20
\* the test section for raw test-case lines in groups of group_size: the
\* note, then per group a labelled call and the print of its result
GroupedCalls(test_cases, group_size, method_name) ==
    JoinWith(<< <<"    # NOTE: Expected outputs not available - add assertions manually">>,
                <<>> >>
             \o BasicCalls(SplitLines(Strip(test_cases)), group_size, method_name, 1),
             <<NL>>)

\* C20: when no example is extracted from the description, raw test-case
\* lines are chunked into consecutive groups of as many lines as the method
\* has parameters, and one labelled call solution.<method>(<group joined by
\* commas>) without assertion is emitted per group, in order; without raw
\* test-case text the section is one commented placeholder followed by pass.
\* (Nothing is required when the method has no parameter or the lines do not
\* fill the last group.)
C20_RawLinesGroupedByParameterCount ==
    (called = "format" /\ _extract_test_examples(arg.description) = <<>>) =>
        \A code \in {_get_python_code(arg.snippet)} :
        \A group_size \in {Len(_extract_parameter_info(code))} :
            /\ arg.test_cases = <<>>
                   => ret = _build_file_content(
                                arg, _format_description(arg.description), code,
                                <<"    # Add your test cases here", NL, "    pass">>)
            /\ (/\ arg.test_cases # <<>>
                /\ group_size > 0
                /\ Len(SplitLines(Strip(arg.test_cases))) % group_size = 0)
                   => ret = _build_file_content(
                                arg, _format_description(arg.description), code,
                                GroupedCalls(arg.test_cases, group_size,
                                             _extract_method_name(code)))

\* ------------------------------------------------------------ claim C21
\* a line of the generated file that is a call statement or a print statement
\* of the raw-test-case fallback, whatever its indentation
IsFallbackStatement(line) ==
    \E k \in 1..Len(line) : line[k] \in {"solution.", "print(f\"Test "}

\* the line is indented at the level of a function body
AtBodyLevel(line) ==
    Len(line) >= 4 /\ SubSeq(line, 1, 4) = Indent(4)

\* the number of the line that opens run_tests, 0 if there is none
RunTestsLine(lines) ==
    Max({0} \cup {k \in 1..Len(lines) : lines[k] = <<"def run_tests():">>})

\* C21: in the raw-test-case fallback every emitted call statement and print
\* statement is part of the body of run_tests: it follows the line
\* def run_tests(): and is indented at function-body level, so it runs only
\* when run_tests is called and can use the local variable solution.
C21_FallbackStatementsInRunTests ==
    (called = "format" /\ _extract_test_examples(arg.description) = <<>>) =>
        \A lines \in {SplitLines(ret)} :
            \A k \in 1..Len(lines) :
                IsFallbackStatement(lines[k]) =>
                    /\ RunTestsLine(lines) > 0
                    /\ k > RunTestsLine(lines)
                    /\ AtBodyLevel(lines[k])

\* ------------------------------------------------------------ claim C22
\* the line that opens the block line i belongs to
BlockStart(lines, i) ==
    Max({j \in 1..i : CommentedClass(lines[j])})

\* the de-commented form of a block line for the indentation of the line
\* that opens its block
DeCommented(line, base_indent) ==
    IF CommentedClass(line)
    THEN LStrip(LStripHash(From(line, IndentOf(line))))
    ELSE IF IndentOf(line) >= base_indent
    THEN WithValue(LStripHash(From(line, base_indent)), LAMBDA uncommented_line :
             IF uncommented_line = <<>> \/ IsSpace(uncommented_line) THEN <<>>
             ELSE IF uncommented_line[1] = SP THEN Tail(uncommented_line)
             ELSE uncommented_line)
    ELSE LStrip(LStripHash(line))

\* a block ends with line i: the next line is not comment-marked, opens
\* another block, or does not exist
BlockEndsAt(lines, i) ==
    /\ InBlock(lines, i)
    /\ i = Len(lines) \/ ~InBlock(lines, i + 1) \/ CommentedClass(lines[i + 1])

\* every line once, in order, verbatim or de-commented, and a blank line
\* after each block
RECURSIVE Reconstructed(_, _)
Reconstructed(lines, i) ==
    IF i > Len(lines) THEN <<>>
    ELSE << IF InBlock(lines, i)
            THEN DeCommented(lines[i], IndentOf(lines[BlockStart(lines, i)]))
            ELSE lines[i] >>
         \o (IF BlockEndsAt(lines, i) THEN << <<>> >> ELSE <<>>)
         \o Reconstructed(lines, i + 1)

\* C22: the helper reconstructor never drops content: every input line is in
\* the output in its original relative order, verbatim outside a block and
\* de-commented inside one, and each detected block is followed by exactly
\* one added blank line; also when a second "# class" line starts while a
\* block is still open, the lines of the first block are emitted.
C22_NoLineDropped ==
    called = "_uncomment_class_definitions" =>
        SplitLines(ret) = Reconstructed(arg, 1)

\* the property on the inputs in which no block directly follows another
C22_HoldsForSeparateBlocks ==
    (/\ called = "_uncomment_class_definitions"
     /\ \A i \in 2..Len(arg) : CommentedClass(arg[i]) => ~InBlock(arg, i - 1))
        => SplitLines(ret) = Reconstructed(arg, 1)

\* ------------------------------------------------------------ claim C23
Converters ==
    {"list_to_listnode", "listnode_to_list", "list_to_treenode", "treenode_to_list"}

\* the line of the helper templates that defines the converter
ConverterDefinition(converter) ==
    CASE converter = "list_to_listnode" -> <<"    def list_to_listnode(arr):">>
      [] converter = "listnode_to_list" -> <<"    def listnode_to_list(node):">>
      [] converter = "list_to_treenode" -> <<"    def list_to_treenode(arr):">>
      [] converter = "treenode_to_list" -> <<"    def treenode_to_list(root):">>

\* the numbers of the lines that are assertions
AssertionLineNumbers(lines) ==
    {k \in 1..Len(lines) : lines[k] # <<>> /\ lines[k][1] = AssertPrefix}

\* C23: whenever a generated assertion calls a converter function, the
\* definition of that function is emitted inside run_tests before the first
\* assertion, for every code template, also one whose signature mentions
\* ListNode or TreeNode without holding the class definition.
C23_CalledConvertersAreDefined ==
    called = "format" =>
        \A lines \in {SplitLines(ret)} :
        \A assertions \in {AssertionLineNumbers(lines)} :
            \A k \in assertions :
                \A converter \in Converters :
                    Contains(lines[k], converter) =>
                        \E j \in (RunTestsLine(lines) + 1)..(Min(assertions) - 1) :
                            lines[j] = ConverterDefinition(converter)

\* the property on the templates that hold the class their signature names
C23_HoldsWithClassDefinition ==
    (called = "format" /\ arg.snippet # Some(ListNodeSignatureTemplate)) =>
        C23_CalledConvertersAreDefined

\* an assertion that calls a converter, in a file that defines it
C23_ConverterDefinedCase ==
    /\ called = "format"
    /\ \E k \in AssertionLineNumbers(SplitLines(ret)) :
           Contains(SplitLines(ret)[k], "listnode_to_list")
    /\ \E j \in 1..Len(SplitLines(ret)) :
           SplitLines(ret)[j] = ConverterDefinition("listnode_to_list")

\* ------------------------------------ specification: template analysis
\* A template is one class, named Solution or not, with up to
\* MaxAnalysisMethods methods with or without return annotation, with or
\* without a helper class with an annotated method before it.
MaxAnalysisMethods == 2

ReturnTypes == {None, Some(<<"int">>), Some(<<"Optional", "[", "ListNode", "]">>)}

AnalysisMethods ==
    [name : {<<"__init__">>, <<"f">>, <<"g">>}, params : ParamLists, returns : ReturnTypes]

HelperMethod ==
    [name |-> <<"solve">>, params |-> <<[name |-> <<"val">>, type |-> <<"int">>]>>,
     returns |-> Some(<<"bool">>)]

AnalysisTemplates ==
    [class_name : {"Solution", "Helper"},
     helper_before : BOOLEAN,
     methods : SeqsUpTo(AnalysisMethods, MaxAnalysisMethods) \ {<<>>}]

AnnotatedMethodLines(method) ==
    << Indent(4) \o <<"def", SP>> \o method.name \o <<"(", "self">>
       \o ParamsInline(method.params) \o <<")">>
       \o (IF method.returns = None THEN <<>> ELSE <<SP, "->", SP>> \o method.returns[1])
       \o <<":">>,
       Indent(8) \o <<"pass">>,
       <<>> >>

RECURSIVE AnnotatedMethodsLines(_)
AnnotatedMethodsLines(methods) ==
    IF methods = <<>> THEN <<>>
    ELSE AnnotatedMethodLines(Head(methods)) \o AnnotatedMethodsLines(Tail(methods))

AnalysisCode(template) ==
    JoinWith((IF template.helper_before
              THEN << <<"class", SP, "ListNode", ":">> >> \o AnnotatedMethodLines(HelperMethod)
              ELSE <<>>)
             \o << <<"class", SP, template.class_name, ":">> >>
             \o AnnotatedMethodsLines(template.methods),
             <<NL>>)

InitAnalysis ==
    /\ called = "none"
    /\ arg \in AnalysisTemplates
    /\ ret = None
    /\ FetchNotRunning
    /\ TestNotRunning

\* the analysis of the template at the start of _format_test_cases
Call_format_test_cases_analysis ==
    /\ called = "none"
    /\ called' = "_format_test_cases"
    /\ ret' = WithValue(AnalysisCode(arg), LAMBDA code :
                  [method_name |-> _extract_method_name(code),
                   param_info  |-> _extract_parameter_info(code),
                   return_type |-> _get_return_type(code)])
    /\ UNCHANGED <<arg, fetchVars, testVars>>

NextAnalysis == Call_format_test_cases_analysis

SpecAnalysis == InitAnalysis /\ [][NextAnalysis]_vars

\* ------------------------------------------------------------ claim C24
\* the method definitions of the template, in the order of the text
DefinedMethods(template) ==
    (IF template.helper_before THEN <<HelperMethod>> ELSE <<>>) \o template.methods

\* the name, the parameter list and the return type of one definition
NameOf(method) == method.name
ParameterInfoOf(method) ==
    [k \in 1..Len(method.params) |-> <<method.params[k].name, method.params[k].type>>]
ReturnTypeOf(method) ==
    IF method.returns = None THEN <<"Any">> ELSE method.returns[1]

\* C24: the method name, the parameter list and the return type used to
\* build the assertions of one generated file are all taken from the same
\* method definition of the code template, for every template: also without
\* class Solution, with several annotated methods, or with other classes
\* with annotated methods before class Solution.
C24_OneMethodDefinition ==
    called = "_format_test_cases" =>
        \E method \in {DefinedMethods(arg)[i] : i \in 1..Len(DefinedMethods(arg))} :
            /\ ret.method_name = NameOf(method)
            /\ ret.param_info = ParameterInfoOf(method)
            /\ ret.return_type = ReturnTypeOf(method)

\* the property on the templates that are class Solution alone with one
\* method, not a dunder method
C24_HoldsForSingleMethod ==
    (/\ called = "_format_test_cases"
     /\ arg.class_name = "Solution" /\ ~arg.helper_before
     /\ Len(arg.methods) = 1 /\ arg.methods[1].name # <<"__init__">>)
        => C24_OneMethodDefinition

\* ------------------------------------ specification: example block parser
\* An example block is text of up to MaxBlockLen atoms: labels, line breaks,
\* blanks and a word, stripped as _extract_test_examples strips it.
MaxBlockLen == 5

BlockAtoms == {InputLabel, OutputLabel, ExplanationLabel, NL, SP, "x"}

InitExample ==
    /\ called = "none"
    /\ arg \in {text \in SeqsUpTo(BlockAtoms, MaxBlockLen) : Strip(text) = text}
    /\ ret = None
    /\ FetchNotRunning
    /\ TestNotRunning

Call_parse_example_text ==
    /\ called = "none"
    /\ called' = "_parse_example_text"
    /\ ret' = _parse_example_text(arg)
    /\ UNCHANGED <<arg, fetchVars, testVars>>

NextExample == Call_parse_example_text

SpecExample == InitExample /\ [][NextExample]_vars

\* ------------------------------------------------------------ claim C25
\* the text after the first occurrence of the label, up to the first later
\* occurrence of the stop label or the end of the block
TextBetween(s, label, stop) ==
    WithValue(FirstIn(s, 1, {label}), LAMBDA p :
        SubSeq(s, p + 1, FirstIn(s, p + 1, {stop}) - 1))

\* text is the stripped form of the start of full
IsStrippedStart(text, full) ==
    \E n \in 0..Len(full) : text = Strip(SubSeq(full, 1, n))

\* C25: within an example block the extracted input-text is text that
\* follows the Input: label and ends before the Output: label, the extracted
\* output-text is text that follows Output: and ends before an Explanation:
\* label or at the block end; neither extracted text contains the next
\* label, wherever the labels sit on their lines.
C25_TextsEndBeforeNextLabel ==
    (called = "_parse_example_text" /\ ret # None) =>
        /\ IsStrippedStart(ret[1][1], TextBetween(arg, InputLabel, OutputLabel))
        /\ ~Contains(ret[1][1], OutputLabel)
        /\ IsStrippedStart(ret[1][2], TextBetween(arg, OutputLabel, ExplanationLabel))
        /\ ~Contains(ret[1][2], ExplanationLabel)

\* a label is at the start of its line, and the first text after a label is
\* not another label
LabelsStartLines(s) ==
    /\ \A k \in 2..Len(s) :
           s[k] \in {OutputLabel, ExplanationLabel} => s[k - 1] = NL
    /\ \A k \in 1..Len(s) :
           s[k] \in {InputLabel, OutputLabel} =>
               \A v \in {SkipSpaces(s, k + 1)} :
                   v > Len(s) \/ s[v] \notin {OutputLabel, ExplanationLabel}

\* the property on the blocks whose Output: and Explanation: labels start
\* their lines and follow the text of the label before
C25_HoldsForLabelsAtLineStart ==
    (called = "_parse_example_text" /\ LabelsStartLines(arg))
        => C25_TextsEndBeforeNextLabel

\* ------------------------------------------------------------ claim C26
\* every file a row points to is a valid test file
AllFilesValid == \A path \in DOMAIN disk : validate_test_file(disk[path])

\* no problem is executed and no test status is updated in this step
NothingTested == db' = db /\ xpc' = xpc /\ target' = target

\* C26: with --stop-on-fail, once any problem of the run has been counted as
\* failed or as error, no later problem in the list is executed and no later
\* problem's test status is updated.
C26_StopsAtFirstFailure ==
    [][(stop_on_fail /\ failed + errors > 0) => NothingTested]_vars

\* the property on the runs in which every file is a valid test file
C26_HoldsForValidFiles ==
    [][(stop_on_fail /\ failed + errors > 0 /\ AllFilesValid) => NothingTested]_vars

\* a run stopped by a failure with a problem left in the list
C26_StoppedCase ==
    /\ stop_on_fail /\ tpc = "ended" /\ failed = 1
    /\ current < Len(problems)

\* ------------------------------------------------------------ claim C27
\* the problems counted so far and the problems the loop has dealt with
Counted == passed + failed + errors + skipped

ProblemsProcessed ==
    CASE tpc \in {"for problem", "run_test"} -> current - 1
      [] tpc = "summary" -> current
      [] tpc = "ended" -> Min({current, Len(problems)})
      [] OTHER -> 0

\* the exit status is non-zero exactly when a problem was counted as failed
\* or as error, and every processed problem is counted in one counter
ExitStatusByCounters ==
    /\ tpc = "ended" => (exit = "ClickException" <=> (failed > 0 \/ errors > 0))
    /\ Counted = ProblemsProcessed

\* C27 as stated: the test command exits with a non-zero status if and only
\* if, at the end of the run, at least one problem was counted as failed or
\* as error (missing and invalid test files included); problems skipped for
\* want of a file path never cause a non-zero exit, and every processed
\* problem is counted in exactly one of passed, failed, errors, skipped.
C27_ExitStatusAsStated == ExitStatusByCounters

\* C27, amended: in an initialized repository the test command exits with a
\* non-zero status if and only if at least one problem was counted as failed
\* or as error, skipped problems never cause a non-zero exit and every
\* processed problem is counted in exactly one counter; without repository
\* the command exits with a non-zero status before any problem is counted.
C27_ExitStatusInRepository ==
    /\ initialized => ExitStatusByCounters
    /\ (~initialized /\ tpc = "ended") => (exit = "ClickException" /\ Counted = 0)

\* a run that skipped a problem for want of a path, passed the other one and
\* returned; and a run that counted an invalid file and exited non-zero
C27_Witness ==
    /\ initialized /\ tpc = "ended" /\ exit = "ClickException"
    /\ skipped = 1 /\ errors = 1 /\ failed = 0 /\ passed = 0
    /\ \E r \in db : r.test_output = Some(<<"Invalid test file">>)

C27_SkippedOnlyCase ==
    /\ initialized /\ tpc = "ended" /\ exit = "returned"
    /\ skipped = 2 /\ Counted = 2

\* ------------------------------------------------- the emitted tree converters
\* The converters are Python text the formatter emits (TREENODE_HELPERS).  An
\* array is a sequence of None and Some(value); a tree is the sequence of its
\* TreeNode objects in the order of their creation, an object being referred
\* to by its number, None by 0.
TreeNode(val) == [val |-> val, left |-> 0, right |-> 0]

\* one iteration of the while loop of list_to_treenode; i counts from 0
TreeBuildStep(arr, st) ==
    LET node  == Head(st.queue)
        lnew  == st.i < Len(arr) /\ arr[st.i + 1] # None
        nodes1 == IF lnew
                  THEN Append([st.nodes EXCEPT ![node].left = Len(st.nodes) + 1],
                              TreeNode(arr[st.i + 1][1]))
                  ELSE st.nodes
        queue1 == IF lnew THEN Append(Tail(st.queue), Len(nodes1)) ELSE Tail(st.queue)
        i1    == st.i + 1
        rnew  == i1 < Len(arr) /\ arr[i1 + 1] # None
        nodes2 == IF rnew
                  THEN Append([nodes1 EXCEPT ![node].right = Len(nodes1) + 1],
                              TreeNode(arr[i1 + 1][1]))
                  ELSE nodes1
        queue2 == IF rnew THEN Append(queue1, Len(nodes2)) ELSE queue1
    IN  [nodes |-> nodes2, queue |-> queue2, i |-> i1 + 1]

RECURSIVE TreeBuildLoop(_, _)
TreeBuildLoop(arr, st) ==
    IF st.queue # <<>> /\ st.i < Len(arr)
    THEN TreeBuildLoop(arr, TreeBuildStep(arr, st))
    ELSE st

\* the root (0 for None) and the objects created
list_to_treenode(arr) ==
    IF arr = <<>> \/ arr[1] = None THEN [root |-> 0, nodes |-> <<>>]
    ELSE [root |-> 1,
          nodes |-> TreeBuildLoop(arr, [nodes |-> <<TreeNode(arr[1][1])>>,
                                        queue |-> <<1>>, i |-> 1]).nodes]

\* the while loop of treenode_to_list
RECURSIVE TreeListLoop(_, _, _)
TreeListLoop(nodes, queue, collected) ==
    IF queue = <<>> THEN collected
    ELSE LET node == Head(queue)
         IN  IF node # 0
             THEN TreeListLoop(nodes,
                               Tail(queue) \o <<nodes[node].left, nodes[node].right>>,
                               Append(collected, Some(nodes[node].val)))
             ELSE TreeListLoop(nodes, Tail(queue), Append(collected, None))

\* the loop that removes the trailing None values
WithoutTrailingNone(collected) ==
    SubSeq(collected, 1, Max({0} \cup {k \in 1..Len(collected) : collected[k] # None}))

\* treenode_to_list that keeps the trailing None values
treenode_to_list_keeping_none(tree) ==
    IF tree.root = 0 THEN <<>>
    ELSE TreeListLoop(tree.nodes, <<tree.root>>, <<>>)

treenode_to_list(tree) ==
    IF tree.root = 0 THEN <<>>
    ELSE WithoutTrailingNone(TreeListLoop(tree.nodes, <<tree.root>>, <<>>))

\* ------------------------------------------ specification: tree converters
MaxTreeLen == 5

TreeValues == {None, Some(0), Some(1)}

InitTree ==
    /\ called = "none"
    /\ arg \in SeqsUpTo(TreeValues, MaxTreeLen)
    /\ ret = None
    /\ FetchNotRunning
    /\ TestNotRunning

Call_list_to_treenode ==
    /\ called = "none"
    /\ called' = "list_to_treenode"
    /\ ret' = list_to_treenode(arg)
    /\ UNCHANGED <<arg, fetchVars, testVars>>

\* the inverse conversion applied to the tree the first call returned
Call_treenode_to_list ==
    /\ called = "list_to_treenode"
    /\ called' = "treenode_to_list"
    /\ ret' = treenode_to_list(ret)
    /\ UNCHANGED <<arg, fetchVars, testVars>>

NextTree == Call_list_to_treenode \/ Call_treenode_to_list

SpecTree == InitTree /\ [][NextTree]_vars

\* ------------------------------------------------------------ claim C28
\* the number of non-null slots among the first n slots of the array
NonNullCount(a, n) == Cardinality({i \in 1..n : a[i] # None})

\* the slot of the k-th node of the array in breadth-first order
SlotOfNode(a, k) == CHOOSE i \in 1..Len(a) : a[i] # None /\ NonNullCount(a, i) = k

\* the node at slot i of the array, 0 when the slot is null or does not exist
NodeAtSlot(a, i) == IF i <= Len(a) /\ a[i] # None THEN NonNullCount(a, i) ELSE 0

\* a level-order encoding of a binary tree: empty, or a non-null root and
\* then two slots per non-null node, the k-th node owning the slots 2k and
\* 2k + 1, so that every slot belongs to a node that stands before it
ValidLevelOrder(a) ==
    a # <<>> =>
        /\ a[1] # None
        /\ \A i \in 2..Len(a) : NonNullCount(a, i - 1) >= i \div 2

\* C28: the emitted tree converters implement level-order conversion:
\* list_to_treenode builds the tree breadth-first, consuming two array slots
\* per non-null node and creating no node (and consuming no child slots) for
\* a null slot, and treenode_to_list is its inverse with the trailing run of
\* nulls removed: for every array a that is a valid level-order encoding,
\* treenode_to_list(list_to_treenode(a)) equals a without its trailing nulls.
C28_LevelOrderRoundTrip ==
    ValidLevelOrder(arg) =>
        /\ called = "list_to_treenode" =>
               /\ Len(ret.nodes) = NonNullCount(arg, Len(arg))
               /\ ret.root = IF arg = <<>> THEN 0 ELSE 1
               /\ \A k \in 1..Len(ret.nodes) :
                      ret.nodes[k] = [val   |-> arg[SlotOfNode(arg, k)][1],
                                      left  |-> NodeAtSlot(arg, 2 * k),
                                      right |-> NodeAtSlot(arg, 2 * k + 1)]
        /\ called = "treenode_to_list" => ret = WithoutTrailingNone(arg)

\* a tree with a null slot inside the array and one at its end
C28_Witness ==
    /\ called = "treenode_to_list"
    /\ arg = <<Some(1), None, Some(0), Some(1), None>>
    /\ ret = <<Some(1), None, Some(0), Some(1)>>

\* ------------------------------------------------------------ claim C29
\* the steps of the loop follow one another in the order fetch,
\* registered-check, format, write, register
StepsInOrder ==
    /\ pc = "fetch"    => pc' \in {"fetch", "check", "raised", "done"}
    /\ pc = "check"    => pc' \in {"check", "format", "fetch"}
    /\ pc = "format"   => pc' \in {"format", "write", "raised"}
    /\ pc = "write"    => pc' \in {"write", "register", "raised"}
    /\ pc = "register" => pc' \in {"register", "fetch"}

\* the table changes in the register step alone, when the file of the
\* problem is written; a failure of format or write leaves the table alone
RegisteredAfterWritten ==
    /\ db' # db =>
           /\ pc = "register"
           /\ [path |-> FilePath(fetched), content |-> content] \in files
           /\ \A r \in db' \ db : r.problem_id = ProblemNumber(fetched.id)
    /\ (pc \in {"format", "write"} /\ pc' = "raised") => db' = db

\* the counter goes up by one in the register step and in no other step
CountsRegistered ==
    /\ success_count' # success_count =>
           /\ pc = "register"
           /\ success_count' = success_count + 1
           /\ is_problem_registered(db', "leetcode", ProblemNumber(fetched.id))
    /\ (pc = "register" /\ pc' # pc) => success_count' = success_count + 1

\* the rows this run has registered
RowsOfThisRun == {r \in db : r.last_test_run = "never"}

NoRepeatedId ==
    \A i, j \in 1..Len(problem_ids) : problem_ids[i] = problem_ids[j] => i = j

\* every row of this run has its file, and the counter is the number of
\* these rows (of the passes that registered, when a number is repeated)
CounterMatchesRows ==
    /\ \A r \in RowsOfThisRun :
           \E f \in files : r.file_path = Some(f.path) /\ f.content # <<"old">>
    /\ success_count >= Cardinality(RowsOfThisRun)
    /\ NoRepeatedId => success_count = Cardinality(RowsOfThisRun)

\* C29: in fetch the steps for each problem id happen in the order fetch,
\* registered-check, format, write file, register in database; a problem is
\* registered only after its file has been written, so when formatting or
\* writing fails for a problem no database row for that problem is created
\* or changed, and the success counter counts exactly the problems that were
\* both written and registered.
C29_RegisteredOnlyAfterWritten ==
    /\ [][StepsInOrder /\ RegisteredAfterWritten /\ CountsRegistered]_vars
    /\ []CounterMatchesRows

\* one problem written and registered, then a write that failed for the
\* next problem, which has no row
C29_Witness ==
    /\ pc = "raised" /\ raised = "OSError"
    /\ problem_ids = <<1, 2>> /\ position = 2
    /\ success_count = 1
    /\ is_problem_registered(db, "leetcode", "1")
    /\ ~is_problem_registered(db, "leetcode", "2")

\* ------------------------------- specification: calls of the database manager
MaxRegisterCalls == 3

\* the sources a caller registers problems under ('leetcode' is the default)
RegisterSources == {"leetcode", "custom"}

\* the rows of the table problems with this source and problem_id
RowsWithKey(rows, source, problem_id) ==
    {r \in rows : r.source = source /\ r.problem_id = problem_id}

\* a repository the schema has just been created in: no row in problems
InitRegisterCalls ==
    /\ called = "none"
    /\ arg = [calls |-> 0]
    /\ ret = None
    /\ FetchNotRunning
    /\ TestNotRunning

\* database.py:159-203 called once more on the database the calls before it
\* left, as test_database.py calls it: file_path takes its default
Call_register_problem_again ==
    /\ arg.calls < MaxRegisterCalls
    /\ \E id \in 1..MaxProblemId, source \in RegisterSources, forced \in BOOLEAN :
       \E problem \in {ServedProblem(id, "problem"), UpdatedProblem(id)} :
           /\ called' = "register_problem"
           /\ arg' = [calls |-> arg.calls + 1, problem |-> problem, source |-> source,
                      force |-> forced,
                      before |-> RowsWithKey(db, source, ProblemNumber(id))]
           /\ db' = register_problem(db, problem, source, None, forced)
           /\ ret' = Some(register_problem_returns(db, problem, source, forced))
    /\ UNCHANGED <<testVars, problem_ids, force, initialized, server, pc, position,
                   fetched, content, files, success_count, skip_count, raised>>

\* database.py:328-354 called on a row of the table, as test.py:96-99 calls it
Call_update_test_status ==
    /\ arg.calls < MaxRegisterCalls
    /\ \E row \in db, status \in {"passed", "failed"} :
           /\ called' = "update_test_status"
           /\ arg' = [calls |-> arg.calls + 1, row |-> row, status |-> status]
           /\ db' = update_test_status(db, row, status, <<"o">>)
           /\ ret' = Some(TRUE)
    /\ UNCHANGED <<testVars, problem_ids, force, initialized, server, pc, position,
                   fetched, content, files, success_count, skip_count, raised>>

NextRegisterCalls ==
    \/ Call_register_problem_again
    \/ Call_update_test_status

SpecRegisterCalls == InitRegisterCalls /\ [][NextRegisterCalls]_vars

\* ------------------------------------------------------------ claim C30
\* no two rows of the table have the same source and problem_id
OneRowPerKey == \A r, o \in db : (r.source = o.source /\ r.problem_id = o.problem_id) => r = o

\* a call with force=True on a registered problem returns True and leaves, for
\* that source and problem_id, the row of this call alone: the columns of the
\* call, test_status 'untested', no test output, no last test run
ForcedCallReplacesRow ==
    (called' = "register_problem" /\ arg'.force /\ arg'.before # {})
        => /\ ret' = Some(TRUE)
           /\ RowsWithKey(db', arg'.source, ProblemNumber(arg'.problem.id))
                  = {[source |-> arg'.source,
                      problem_id |-> ProblemNumber(arg'.problem.id),
                      title |-> arg'.problem.title,
                      difficulty |-> arg'.problem.difficulty,
                      file_path |-> None, test_status |-> "untested",
                      last_test_run |-> "never", test_output |-> None]}

\* every other row stays as it was
OtherRowsKept ==
    called' = "register_problem"
        => \A r \in db : (r.source # arg'.source
                          \/ r.problem_id # ProblemNumber(arg'.problem.id))
                             => r \in db'

\* C30: after any sequence of register_problem calls the table holds at most
\* one row per (source, problem_id), and a call with force=True on a problem
\* that is already registered replaces the whole row: its test_status is
\* 'untested' again and the test output and the time of the last test run it
\* had are gone.
C30_OneRowPerProblemForceResets ==
    /\ []OneRowPerKey
    /\ [][ForcedCallReplacesRow /\ OtherRowsKept]_vars

\* a forced call has just replaced the row of a problem whose tests had passed
C30_Witness ==
    /\ called = "register_problem"
    /\ arg.force
    /\ \E r \in arg.before : /\ r.test_status = "passed"
                             /\ r.last_test_run = "this run"
                             /\ r.test_output = Some(<<"o">>)
    /\ \A r \in RowsWithKey(db, arg.source, ProblemNumber(arg.problem.id)) :
           r.test_status = "untested" /\ r.test_output = None
    /\ Cardinality(db) = 1

====
